---- MODULE Spec2Model ----
(***************************************************************************)
(* SuperModel: the generator pipeline (src/main.ts), the item staging      *)
(* queue (library ItemModel) and the dispatch-table merge engine           *)
(* (src/generators/internal/itemModel.ts).                                 *)
(*                                                                         *)
(* Strings whose characters matter (folders, ids, type names) are tuples   *)
(* of UTF-16 code units, so that hashString can walk them as the code does.*)
(* The specifications share the variables:                                 *)
(*   SpecMerge  sequences of updateItemDefinition calls on the tables      *)
(*   SpecGen    one run of the item generator's resolve/merge fan-out      *)
(*   Spec       buildPack runs of the orchestrator in one process          *)
(*   SpecHash   one call of generateUniqueThreshold                         *)
(*   SpecSubst  one call of applyVariableSubstitution                      *)
(*   SpecEntity one run of the entity model generator                      *)
(*   SpecTypes  the type list of one definition                            *)
(*   SpecAlign  one alignment of a texture map against a model             *)
(*   SpecSource the model source of one type of one definition             *)
(*   SpecFolder the output folder of one type of one definition            *)
(*   SpecPersist one merge with the steps of its write, and crashes        *)
(*   SpecCache  runs of ensureVanillaAssets on the reference dataset cache *)
(*   SpecLegacy the merge of the legacy item generator, called repeatedly  *)
(***************************************************************************)
EXTENDS Integers, Sequences, FiniteSets, TLC

VARIABLES
    tables,     \* SpecMerge: type -> content of <itemDefsBase>/<type>.json
    last,       \* SpecMerge: record of the most recent updateItemDefinition call
    prev,       \* SpecMerge: record of the call before it
    nMerges,    \* SpecMerge: number of calls made so far
    worklist,   \* SpecGen: modelsToProcess of the run
    queued,     \* SpecGen: the definitions added to the queue, in add order
    diskFiles,  \* SpecGen: the .smodel files, in the order walk() yields them
    taskPos,    \* SpecGen: per task, the number of its types already handled
    modelsAddedByType,  \* SpecGen: [keys, refs], keys in insertion order
    merged,     \* SpecGen: types whose updateItemDefinition has completed
    startTables,    \* SpecGen: the tables as the run found them
    genPc,      \* SpecGen: "read", "start", "resolve", "merge", "done" or "failed"
    discovered, \* Spec: the generator modules walk() yields, in its order
    diskDefs,   \* Spec: number of readable .smodel files under items/
    runs,       \* Spec: per buildPack call of the process, its position
    modelQueue, \* Spec: ItemModel.modelQueue
    process,    \* Spec: "running", "exited" (Deno.exit) or "crashed"
    call,       \* SpecHash, SpecSubst, SpecTypes, SpecAlign, SpecSource, SpecFolder:
                \* one call of a pure function
    cache,      \* SpecCache: the content of the reference dataset cache ./minecraft
    entWork,    \* SpecEntity: modelsToProcess of the entity generator, sorted
    entTask,    \* SpecEntity: per task, its position and the indices it took
    indexTracker,       \* SpecEntity: type -> last index handed out
    propertiesCache,    \* SpecEntity: type -> content of <type>.properties
    entFiles,   \* SpecEntity: type -> <type>.properties on disk
    entStartFiles,      \* SpecEntity: the files as the run found them
    entPc       \* SpecEntity: "start", "tasks", "write" or "done"

mergeVars == <<last, prev, nMerges>>
genVars == <<queued, diskFiles, worklist, taskPos, modelsAddedByType, merged, startTables,
             genPc>>
pipeVars == <<discovered, diskDefs, runs, modelQueue, process>>
fnVars == <<call, cache>>
entVars == <<entWork, entTask, indexTracker, propertiesCache, entFiles, entStartFiles, entPc>>
vars == <<tables, mergeVars, genVars, pipeVars, fnVars, entVars>>

EntityTypes == {"cow", "pig"}

\* No run of the entity generator
EntIdle ==
    /\ entWork = <<>>
    /\ entTask = <<>>
    /\ indexTracker = [t \in EntityTypes |-> <<>>]
    /\ propertiesCache = [t \in EntityTypes |-> <<>>]
    /\ entFiles = [t \in EntityTypes |-> <<>>]
    /\ entStartFiles = [t \in EntityTypes |-> <<>>]
    /\ entPc = "idle"

\* No call of a function on its own
\* No assets folder
NoAssets == [of |-> "none", all |-> FALSE]

\* No ./minecraft directory
CacheAbsent == [dir |-> FALSE, marker |-> "none", assets |-> NoAssets, tmp |-> FALSE]

CacheIdle == cache = CacheAbsent

FnIdle ==
    /\ call = [fn |-> "none", input |-> <<>>, output |-> <<>>, done |-> FALSE]
    /\ CacheIdle

----------------------------------------------------------------------------
(* Bounds *)

MaxRefs == 2        \* longest reference list handed to one merge
MaxMerges == 2      \* merges per behaviour
MaxDefs == 3        \* longest worklist of one item generator run
MaxFiles == 3       \* most .smodel files one traversal finds
MaxModules == 3     \* generator modules found by one walk
MaxRuns == 3        \* buildPack calls in one process
MaxStrLen == 7      \* longest string handed to generateUniqueThreshold on its own
MaxEntDefs == 3     \* longest worklist of one entity generator run
MaxEnsures == 3     \* ensureVanillaAssets calls on one cache

----------------------------------------------------------------------------
(* Strings *)

apple == <<97, 112, 112, 108, 101>>     \* "apple"
stick == <<115, 116, 105, 99, 107>>     \* "stick"
Types == {apple, stick}

Slash == <<47>>                          \* "/"

\* (folder, id) pairs of resolved references.  "Aa/x" and "BB/x" hash to the
\* same value; "Aa/y" hashes to the value one above it.
RefPool ==
    { [folder |-> <<65, 97>>, id |-> <<120>>],      \* Aa / x
      [folder |-> <<66, 66>>, id |-> <<120>>],      \* BB / x
      [folder |-> <<65, 97>>, id |-> <<121>>],      \* Aa / y
      [folder |-> <<112>>,    id |-> <<113>>] }     \* p  / q

----------------------------------------------------------------------------
(* hashString / generateUniqueThreshold.                                   *)
(* JavaScript numbers are doubles: `hash << 5` converts its operand to a   *)
(* signed 32-bit integer and wraps, while the subtraction and the addition *)
(* are exact double arithmetic on the unwrapped running value.  A number   *)
(* is kept as [hi, lo] standing for hi * 2^16 + lo with lo in 0..2^16-1,   *)
(* so that no intermediate exceeds the checker's integer range.            *)

THRESHOLD_START == 32767
HashModulus == 10000000

W16 == 2^16

Norm(hi, lo) == [hi |-> hi + (lo \div W16), lo |-> lo % W16]

Zero == [hi |-> 0, lo |-> 0]

\* ToInt32(v) << 5, as a signed 32-bit value
Shl5(v) ==
    LET lo32 == v.lo * 32
        hiU  == (((v.hi % W16) * 32) + (lo32 \div W16)) % W16
    IN  [hi |-> IF hiU >= 2^15 THEN hiU - W16 ELSE hiU, lo |-> lo32 % W16]

Sub(a, b) == Norm(a.hi - b.hi, a.lo - b.lo)

AddCode(c, a) == Norm(a.hi, a.lo + c)

Abs(v) == IF v.hi < 0 THEN Norm(0 - v.hi, 0 - v.lo) ELSE v

\* hash = str.charCodeAt(i) + ((hash << 5) - hash)
hashStep(hash, c) == AddCode(c, Sub(Shl5(hash), hash))

RECURSIVE hashLoop(_, _, _)
hashLoop(str, i, hash) ==
    IF i > Len(str) THEN hash ELSE hashLoop(str, i + 1, hashStep(hash, str[i]))

hashString(str) == Abs(hashLoop(str, 1, Zero))

Times16Mod(x, m) == (x * 16) % m

\* v % m for a non-negative v and m <= 10^7
ModBig(v, m) ==
    (Times16Mod(Times16Mod(Times16Mod(Times16Mod(v.hi % m, m), m), m), m) + v.lo) % m

generateUniqueThreshold(modelId) ==
    LET baseHash == ModBig(hashString(modelId), HashModulus)
    IN  THRESHOLD_START + baseHash

----------------------------------------------------------------------------
(* Dispatch tables.                                                        *)
(* A file <type>.json is one of: absent; text that does not parse to an    *)
(* object with a "model" key; an object whose "model" value is falsy; an   *)
(* object whose "model" is an object (its "entries" an array or not).      *)
(* The root keeps the "type", "property" and "index" keys of that object,  *)
(* an absent key being the empty tuple.  An entry is [threshold, model]; a *)
(* model value is a record [type, model] whose model field is              *)
(* <<prefix, characters>>.                                                 *)

NoEntries == <<>>

NoFallback == [type |-> "none", model |-> <<"", <<>>>>]

NoRoot == [type |-> "none", property |-> <<>>, index |-> <<>>]

\* type: "range_dispatch", property: "custom_model_data", index: 0
DispatchRoot == [type |-> "range_dispatch", property |-> <<"custom_model_data">>, index |-> <<0>>]

NotATable(kind) ==
    [kind |-> kind, root |-> NoRoot, fallback |-> NoFallback, entries |-> NoEntries,
     entriesIsArray |-> FALSE]

FileAbsent == NotATable("absent")
FileGarbage == NotATable("garbage")
FileNullModel == NotATable("nullmodel")

TableFile(root, fallback, entries) ==
    [kind |-> "table", root |-> root, fallback |-> fallback, entries |-> entries,
     entriesIsArray |-> TRUE]

\* { type: "model", model: `item/${type}` }
placeholderFallback(type) == [type |-> "model", model |-> <<"item/", type>>]

\* The reference dataset holds an item definition for apple and none for
\* stick (getVanillaItemModel returns undefined for it).
VanillaKnown == {apple}

getVanillaItemModel(type) ==
    IF type \in VanillaKnown
    THEN <<[type |-> "minecraft:model", model |-> <<"minecraft:item/", type>>]>>
    ELSE <<>>

defaultDispatchDefinition(type, fallbackModel) ==
    TableFile(DispatchRoot,
              IF fallbackModel # <<>> THEN fallbackModel[1] ELSE placeholderFallback(type),
              NoEntries)

\* vanillaFallback ? vanillaFallback : { type: "model", model: `item/${type}` }
fallbackDefinition(type) ==
    LET vanillaFallback == getVanillaItemModel(type)
    IN  IF vanillaFallback # <<>> THEN vanillaFallback[1] ELSE placeholderFallback(type)

ModelId(ref) == ref.folder \o Slash \o ref.id

\* { type: "model", model: `supermodel:item/${ref.folder}/${ref.id}` };
\* the references of RefPool carry no definition template.
modelEntry(ref) == [type |-> "model", model |-> <<"supermodel:item/", ModelId(ref)>>]

\* Variant: the threshold follows the previous one (a running counter).
refThresholdSequential(ref, type, previousIndex) == previousIndex + 1

\* previousIndex = generateUniqueThreshold(`${ref.folder}/${ref.id}`)
refThreshold(ref, type, previousIndex) == generateUniqueThreshold(ModelId(ref))

\* if (entries.length > 0) entries.pop()
popFallback(entries) ==
    IF Len(entries) > 0 THEN SubSeq(entries, 1, Len(entries) - 1) ELSE entries

takenOf(entries) == {entries[i].threshold : i \in 1..Len(entries)}

\* Variant: the echo is pushed without looking at the thresholds in use.
echoStepUnchecked(st, threshold, type) ==
    [st EXCEPT !.entries = Append(@, [threshold |-> threshold + 1,
                                      model |-> fallbackDefinition(type)]),
               !.taken = @ \cup {threshold + 1}]

\* Variant: the echo's threshold is not added to the thresholds in use.
echoStepNoMark(st, threshold, type) ==
    LET fallbackThreshold == threshold + 1
    IN  IF fallbackThreshold \notin st.taken
        THEN [st EXCEPT !.entries = Append(@, [threshold |-> fallbackThreshold,
                                               model |-> fallbackDefinition(type)])]
        ELSE st

\* The fallback echo pushed after a model entry at `threshold`.
echoStep(st, threshold, type) ==
    LET fallbackThreshold == threshold + 1
    IN  IF fallbackThreshold \notin st.taken
        THEN [st EXCEPT !.entries = Append(@, [threshold |-> fallbackThreshold,
                                               model |-> fallbackDefinition(type)]),
                        !.taken = @ \cup {fallbackThreshold}]
        ELSE st

\* Variant: the entry is pushed although its threshold is in use.
refStepNoSkip(st, ref, type) ==
    LET t == refThreshold(ref, type, st.previousIndex)
    IN  echoStep([entries |-> Append(st.entries, [threshold |-> t, model |-> modelEntry(ref)]),
                  taken |-> st.taken \cup {t},
                  thresholds |-> Append(st.thresholds,
                                        [folder |-> ref.folder, id |-> ref.id, threshold |-> t]),
                  previousIndex |-> t],
                 t, type)

\* One iteration of `for (const ref of modelRefs)`.
refStep(st, ref, type) ==
    LET t == refThreshold(ref, type, st.previousIndex)
    IN  IF t \in st.taken
        THEN [st EXCEPT !.previousIndex = t]
        ELSE echoStep([entries |-> Append(st.entries, [threshold |-> t, model |-> modelEntry(ref)]),
                       taken |-> st.taken \cup {t},
                       thresholds |-> Append(st.thresholds,
                                             [folder |-> ref.folder, id |-> ref.id, threshold |-> t]),
                       previousIndex |-> t],
                      t, type)

RECURSIVE refLoop(_, _, _, _)
refLoop(st, modelRefs, i, type) ==
    IF i > Len(modelRefs) THEN st
    ELSE refLoop(refStep(st, modelRefs[i], type), modelRefs, i + 1, type)

\* Variant: the table is synthesized whatever the file holds.
loadTableFresh(file, type) ==
    IF file.kind # "nullmodel"
    THEN defaultDispatchDefinition(type, getVanillaItemModel(type))
    ELSE file

\* The try/catch that loads the file or synthesizes the default.
loadTable(file, type) ==
    IF file.kind \in {"absent", "garbage"}
    THEN defaultDispatchDefinition(type, getVanillaItemModel(type))
    ELSE file

\* updateItemDefinition: the result is [threw, file, thresholds].  The
\* loaded object is changed in place (its "entries") and written back.
updateItemDefinition(file, type, modelRefs) ==
    LET data == loadTable(file, type)
    IN  IF data.kind = "nullmodel"
        THEN [threw |-> TRUE, file |-> file, thresholds |-> <<>>]
        ELSE LET entries0 == IF data.entriesIsArray THEN data.entries ELSE NoEntries
                 entries1 == popFallback(entries0)
                 st == refLoop([entries |-> entries1, taken |-> takenOf(entries1),
                                thresholds |-> <<>>, previousIndex |-> THRESHOLD_START],
                               modelRefs, 1, type)
             IN  [threw |-> FALSE,
                  file |-> [data EXCEPT !.entries = st.entries, !.entriesIsArray = TRUE],
                  thresholds |-> st.thresholds]

----------------------------------------------------------------------------
(* SpecMerge: updateItemDefinition called repeatedly on the tables of an   *)
(* items folder.  The folder starts with no file, with a file that is not  *)
(* a table, or with a hand-written table whose thresholds are distinct.    *)

Range(seq) == {seq[i] : i \in 1..Len(seq)}

\* Injective sequences over S of length 1..n
RECURSIVE SeqsUpTo(_, _)
SeqsUpTo(S, n) ==
    IF n = 0 THEN {<<>>}
    ELSE LET shorter == SeqsUpTo(S, n - 1)
         IN  shorter \cup {Append(q, x) : q \in {r \in shorter : Len(r) = n - 1},
                                           x \in S}

RefLists == {q \in SeqsUpTo(RefPool, MaxRefs) :
                Len(q) >= 1 /\ \A i, j \in 1..Len(q) : i # j => q[i] # q[j]}

handModel == [type |-> "model", model |-> <<"hand:item/", <<104>>>>]
handFallback(type) == [type |-> "model", model |-> <<"hand:item/", type>>]

FirstRef == [folder |-> <<65, 97>>, id |-> <<120>>]

\* A hand-written dispatch root without "index"
HandRoot == [type |-> "range_dispatch", property |-> <<"custom_model_data">>, index |-> <<>>]

\* A hand-written table that ends with its fallback entry.
HandTable(type) ==
    TableFile(HandRoot, handFallback(type),
              << [threshold |-> 1, model |-> handModel],
                 [threshold |-> 2, model |-> handFallback(type)] >>)

\* A hand-written table using the threshold one above that of "Aa/x".
OccupiedTable(type) ==
    TableFile(HandRoot, handFallback(type),
              << [threshold |-> generateUniqueThreshold(ModelId(FirstRef)) + 1, model |-> handModel],
                 [threshold |-> 2, model |-> handFallback(type)] >>)

\* A table object whose "entries" is not an array.
NoArrayTable(type) ==
    [kind |-> "table", root |-> HandRoot, fallback |-> handFallback(type),
     entries |-> NoEntries, entriesIsArray |-> FALSE]

\* An item definition that is no dispatch table:
\* { "model": { "type": "minecraft:model", "model": "minecraft:item/<type>" } }
PlainModelFile(type) ==
    [kind |-> "table", root |-> [type |-> "minecraft:model", property |-> <<>>, index |-> <<>>],
     fallback |-> NoFallback, entries |-> NoEntries, entriesIsArray |-> FALSE]

InitFiles(type) ==
    {FileAbsent, FileGarbage, FileNullModel, HandTable(type), OccupiedTable(type),
     NoArrayTable(type), PlainModelFile(type)}

NoCall ==
    [type |-> apple, refs |-> <<>>, before |-> FileAbsent, after |-> FileAbsent,
     threw |-> FALSE, thresholds |-> <<>>]

\* At most one type starts with a file.
InitMerge ==
    /\ tables \in {[t \in Types |-> IF t = u THEN f ELSE FileAbsent] :
                      u \in Types, f \in UNION {InitFiles(t) : t \in Types}}
    /\ \A t \in Types : tables[t] \in InitFiles(t)
    /\ last = NoCall
    /\ prev = NoCall
    /\ nMerges = 0

\* One call updateItemDefinition(itemDefsBase, type, modelRefs, vanillaAssetsBase);
\* the file is rewritten unless the call throws.
Merge(type, modelRefs) ==
    /\ nMerges < MaxMerges
    /\ LET res == updateItemDefinition(tables[type], type, modelRefs)
       IN  /\ tables' = [tables EXCEPT ![type] = res.file]
           /\ last' = [type |-> type, refs |-> modelRefs, before |-> tables[type],
                       after |-> res.file, threw |-> res.threw,
                       thresholds |-> res.thresholds]
    /\ prev' = last
    /\ nMerges' = nMerges + 1
    /\ UNCHANGED <<genVars, pipeVars, fnVars, entVars>>

NextMerge == \E type \in Types, modelRefs \in RefLists : Merge(type, modelRefs)

GenIdle ==
    /\ queued = <<>>
    /\ diskFiles = <<>>
    /\ worklist = <<>>
    /\ taskPos = <<>>
    /\ modelsAddedByType = [keys |-> <<>>, refs |-> [t \in Types |-> <<>>]]
    /\ merged = {}
    /\ startTables = [t \in Types |-> FileAbsent]
    /\ genPc = "idle"

PipeIdle ==
    /\ discovered = <<>>
    /\ diskDefs = 0
    /\ runs = <<>>
    /\ modelQueue = <<>>
    /\ process = "running"

MergeInit == InitMerge /\ GenIdle /\ PipeIdle /\ FnIdle /\ EntIdle

SpecMerge == MergeInit /\ [][NextMerge]_vars

----------------------------------------------------------------------------
(* SpecLegacy: the updateItemDefinition of the legacy item generator       *)
(* (src/unnamed/part_003, lines 301-370), called repeatedly on the tables  *)
(* of an items folder.  It numbers the references from a running counter.  *)

LEGACY_THRESHOLD_START == 2557

Max(a, b) == IF a >= b THEN a ELSE b

\* Variant: the counter starts above THRESHOLD_START whatever the table holds.
legacyFirstIndexFixed(entries) == LEGACY_THRESHOLD_START + 1

\* const highest = used.length ? Math.max(...used) : 0;
\* let nextIndex = Math.max(THRESHOLD_START, highest) + 1;
legacyFirstIndex(entries) ==
    LET used == takenOf(entries)
        highest == IF used # {} THEN CHOOSE n \in used : \A m \in used : m <= n ELSE 0
    IN  Max(LEGACY_THRESHOLD_START, highest) + 1

\* The entries and the returned thresholds for the references, numbered
\* from nextIndex on
legacyRefEntries(modelRefs, nextIndex) ==
    [i \in 1..Len(modelRefs) |->
        [threshold |-> nextIndex + i - 1, model |-> modelEntry(modelRefs[i])]]

legacyThresholds(modelRefs, nextIndex) ==
    [i \in 1..Len(modelRefs) |->
        [folder |-> modelRefs[i].folder, id |-> modelRefs[i].id,
         threshold |-> nextIndex + i - 1]]

\* The try/catch that loads the file or synthesizes the default, whose
\* fallback is { type: "model", model: `item/${type}` }.
legacyLoadTable(file, type) ==
    IF file.kind \in {"absent", "garbage"}
    THEN defaultDispatchDefinition(type, <<>>)
    ELSE file

\* The legacy updateItemDefinition: the result is [threw, file, thresholds].
legacyUpdateItemDefinition(file, type, modelRefs) ==
    LET data == legacyLoadTable(file, type)
    IN  IF data.kind = "nullmodel"
        THEN [threw |-> TRUE, file |-> file, thresholds |-> <<>>]
        ELSE LET entries0 == IF data.entriesIsArray THEN data.entries ELSE NoEntries
                 entries1 == popFallback(entries0)
                 nextIndex == legacyFirstIndex(entries1)
                 entries2 == entries1 \o legacyRefEntries(modelRefs, nextIndex)
                 entries3 == Append(entries2,
                                    [threshold |-> nextIndex + Len(modelRefs),
                                     model |-> placeholderFallback(type)])
             IN  [threw |-> FALSE,
                  file |-> [data EXCEPT !.entries = entries3, !.entriesIsArray = TRUE],
                  thresholds |-> legacyThresholds(modelRefs, nextIndex)]

\* One call of the legacy updateItemDefinition(mcItemsBase, type, modelRefs)
LegacyMerge(type, modelRefs) ==
    /\ nMerges < MaxMerges
    /\ LET res == legacyUpdateItemDefinition(tables[type], type, modelRefs)
       IN  /\ tables' = [tables EXCEPT ![type] = res.file]
           /\ last' = [type |-> type, refs |-> modelRefs, before |-> tables[type],
                       after |-> res.file, threw |-> res.threw,
                       thresholds |-> res.thresholds]
    /\ prev' = last
    /\ nMerges' = nMerges + 1
    /\ UNCHANGED <<genVars, pipeVars, fnVars, entVars>>

NextLegacy == \E type \in Types, modelRefs \in RefLists : LegacyMerge(type, modelRefs)

SpecLegacy == MergeInit /\ [][NextLegacy]_vars

----------------------------------------------------------------------------
(* The resolver of one definition (generate, lines 64-165, and its         *)
(* helpers).  An optional value is the empty tuple or a one-element tuple. *)
(* A model value is undefined, a file name, or an inline object with an    *)
(* optional "parent" key, an optional "name" key, and a "data" value that  *)
(* is missing or an object whose "textures" keys are textureKeys.          *)

Dot == 46
dotJson == <<46, 106, 115, 111, 110>>           \* ".json"
layer0 == <<108, 97, 121, 101, 114, 48>>        \* "layer0"
modelSuffix == <<95, 109, 111, 100, 101, 108>>  \* "_model"

\* 1-based position of the last c in s, 0 when there is none
lastIndexOf(s, c) ==
    LET at == {i \in 1..Len(s) : s[i] = c}
    IN  IF at = {} THEN 0 ELSE CHOOSE i \in at : \A j \in at : j <= i

\* const idx = name.lastIndexOf("."); return idx > 0 ? name.slice(0, idx) : name;
stripExtension(name) ==
    LET p == lastIndexOf(name, Dot)
    IN  IF p > 1 THEN SubSeq(name, 1, p - 1) ELSE name

\* basename of a path without trailing separators
stdBasename(path) ==
    SubSeq(path, lastIndexOf(path, Slash[1]) + 1, Len(path))

\* extname(path) is non-empty
hasExtname(path) == lastIndexOf(stdBasename(path), Dot) > 1

endsWith(str, suffix) ==
    Len(str) >= Len(suffix) /\ SubSeq(str, Len(str) - Len(suffix) + 1, Len(str)) = suffix

UndefinedModel ==
    [kind |-> "undefined", file |-> <<>>, parent |-> <<>>, name |-> <<>>,
     hasData |-> FALSE, textureKeys |-> <<>>]

FileModel(file) == [UndefinedModel EXCEPT !.kind = "string", !.file = file]

InlineModel(parent, name, hasData, textureKeys) ==
    [kind |-> "object", file |-> <<>>, parent |-> parent, name |-> name,
     hasData |-> hasData, textureKeys |-> textureKeys]

\* An ItemModelDetails value without any field
NoDetails ==
    [type |-> <<>>, types |-> <<>>, texture |-> <<>>, textures |-> <<>>,
     model |-> UndefinedModel, models |-> <<>>]

getItemTypes(data) ==
    IF data.models # <<>>
    THEN [i \in 1..Len(data.models[1]) |-> data.models[1][i].key]
    ELSE IF data.types # <<>> THEN data.types[1]
    ELSE IF data.type # <<>> /\ data.type[1] # <<>> THEN <<data.type[1]>>
    ELSE <<>>

\* The texture map is a sequence of [key, file] in key order.
gatherTextureMap(data) ==
    IF Len(data.textures) > 0 THEN [map |-> data.textures, hasSingleTexture |-> FALSE]
    ELSE IF data.texture # <<>> /\ data.texture[1] # <<>>
         THEN [map |-> <<[key |-> layer0, file |-> data.texture[1]]>>,
               hasSingleTexture |-> TRUE]
    ELSE [map |-> <<>>, hasSingleTexture |-> FALSE]

resolveModelForType(data, type) ==
    LET own == IF data.models = <<>> THEN {}
               ELSE {i \in 1..Len(data.models[1]) :
                        /\ data.models[1][i].key = type
                        /\ data.models[1][i].value.kind # "undefined"}
    IN  IF own # {} THEN data.models[1][CHOOSE i \in own : TRUE].value
        ELSE data.model

deriveModelBaseName(textureMap, type) ==
    IF Len(textureMap) > 0 THEN stripExtension(stdBasename(textureMap[1].file))
    ELSE type \o modelSuffix

\* Variant: every nested path collapses to its first segment.
extractParentFolderFirstOnly(filePath) ==
    IF Len(filePath) >= 3 THEN <<filePath[1]>> ELSE <<>>

\* filePath is the sequence of path segments below sourceDir.
extractParentFolder(filePath) ==
    IF Len(filePath) >= 4 THEN <<filePath[1] \o Slash \o filePath[2]>>
    ELSE IF Len(filePath) >= 3 THEN <<filePath[1]>>
    ELSE <<>>

\* Line 73: the parent folder of a definition.
parentFolderOf(entry) ==
    IF entry.isFromFile THEN extractParentFolder(entry.filePath)
    ELSE IF entry.data.model.kind = "object" THEN entry.data.model.parent
    ELSE <<>>

resolveModelFolder(perTypeModel, type, textureMap, parentFolder) ==
    LET base ==
            IF perTypeModel.kind = "string"
            THEN stripExtension(stdBasename(perTypeModel.file))
            ELSE IF perTypeModel.kind = "object"
            THEN IF perTypeModel.name # <<>> /\ perTypeModel.hasData
                 THEN stripExtension(stdBasename(perTypeModel.name[1]))
                 ELSE deriveModelBaseName(textureMap, type)
            ELSE IF Len(textureMap) > 0
                 THEN stripExtension(stdBasename(textureMap[1].file))
                 ELSE type
        parent ==
            IF perTypeModel.kind = "object" /\ perTypeModel.parent # <<>>
            THEN perTypeModel.parent
            ELSE parentFolder
    IN  IF parent # <<>> /\ parent[1] # <<>> THEN parent[1] \o Slash \o base ELSE base

dotPng == <<46, 112, 110, 103>>

\* Variant: the copy is not guarded, a failed copy throws.
safeCopyUnguarded(srcReadable) ==
    [copied |-> srcReadable, logged |-> FALSE, threw |-> ~srcReadable]

\* safeCopy(src, dest): copy, then Deno.copyFile; when both fail the failure
\* is logged and the call returns.
safeCopy(srcReadable) ==
    [copied |-> srcReadable, logged |-> ~srcReadable, threw |-> FALSE]

\* Lines 83-93: the textures of a definition read from a file are copied
\* from its folder, ".png" added to a name without extension.
copyTextures(entry, textureMap) ==
    IF entry.isFromFile /\ Len(textureMap) > 0
    THEN {safeCopy((IF hasExtname(textureMap[i].file) THEN textureMap[i].file
                    ELSE textureMap[i].file \o dotPng) \in entry.present) :
            i \in 1..Len(textureMap)}
    ELSE {}

\* The body of `for (const type of itemTypes)` for one type: it throws, or
\* it pushes one reference.  A file-name model whose definition did not come
\* from a file is logged as skipped and its name is recorded all the same.
\* `wrote` tells whether the model file was written below modelsBase: a
\* generated or inline model is written; a file-name model is written when
\* the definition came from a file and the named file can be read or copied.
resolveOneType(entry, type) ==
    LET data == entry.data
        textureMap == gatherTextureMap(data).map
        parentFolder == parentFolderOf(entry)
        perTypeModel == resolveModelForType(data, type)
        modelFolder == resolveModelFolder(perTypeModel, type, textureMap, parentFolder)
        copies == copyTextures(entry, textureMap)
        threw ==
            \/ \E c \in copies : c.threw
            \/ perTypeModel.kind = "undefined" /\ Len(textureMap) = 0
            \/ perTypeModel.kind = "object" /\ ~perTypeModel.hasData
            \/ perTypeModel.kind = "object" /\ perTypeModel.name = <<>>
            \/ perTypeModel.kind = "object" /\ perTypeModel.name = <<<<>>>>
        createdModelName ==
            IF perTypeModel.kind = "undefined" THEN deriveModelBaseName(textureMap, type)
            ELSE IF perTypeModel.kind = "object"
            THEN LET modelName == IF perTypeModel.name = <<>> THEN <<>>
                                  ELSE perTypeModel.name[1]
                 IN  stripExtension(IF endsWith(modelName, dotJson) THEN modelName
                                    ELSE modelName \o dotJson)
            ELSE stripExtension(stdBasename(IF hasExtname(perTypeModel.file)
                                            THEN perTypeModel.file
                                            ELSE perTypeModel.file \o dotJson))
        wrote ==
            /\ ~threw
            /\ perTypeModel.kind = "string" =>
                  /\ entry.isFromFile
                  /\ (IF hasExtname(perTypeModel.file) THEN perTypeModel.file
                      ELSE perTypeModel.file \o dotJson) \in entry.present
    IN  [threw |-> threw, folder |-> modelFolder, id |-> createdModelName, wrote |-> wrote,
         logged |-> \E c \in copies : c.logged]

----------------------------------------------------------------------------
(* SpecGen: the fan-out of one item generator run (generate, lines 57-178).*)
(* Every definition of the worklist is a task; a task handles its types in *)
(* order and awaits file operations before each push into                  *)
(* modelsAddedByType, so pushes of different tasks interleave in the order *)
(* in which those operations complete.  After the join, one merge task per *)
(* key of modelsAddedByType runs, again concurrently.                      *)

\* A worklist entry; `present` holds the names of the readable files next
\* to the definition file.
fromQueue(data) == [data |-> data, isFromFile |-> FALSE, filePath |-> <<>>, present |-> {}]

fromDisk(data, filePath, present) ==
    [data |-> data, isFromFile |-> TRUE, filePath |-> filePath, present |-> present]

\* { type: "apple", model: { parent: <parent>, name: "x", data: {} } }
appleInline(parent) ==
    [NoDetails EXCEPT !.type = <<apple>>,
                      !.model = InlineModel(<<parent>>, <<<<120>>>>, TRUE, <<>>)]

\* The definitions a module may queue with ItemModel.add
DefPool ==
    { appleInline(<<65, 97>>),                                  \* "Aa/x" / "x"
      appleInline(<<66, 66>>),                                  \* "BB/x" / "x"
      \* { models: { apple: "r.json", stick: { name: "", data: {} } } }
      [NoDetails EXCEPT
          !.models = << << [key |-> apple, value |-> FileModel(<<114>> \o dotJson)],
                           [key |-> stick,
                            value |-> InlineModel(<<>>, <<<<>>>>, TRUE, <<>>)] >> >>],
      \* { texture: "s" }
      [NoDetails EXCEPT !.texture = <<<<115>>>>],
      \* { type: "stick" }
      [NoDetails EXCEPT !.type = <<stick>>] }

\* A .smodel file below assets/supermodel/items: its path, what reading and
\* parsing it gives, and the readable files next to it.
JsonFile(path, data, present) ==
    [path |-> path, content |-> "json", data |-> data, present |-> present]

\* Deno.readTextFile rejects
UnreadableFile(path) ==
    [path |-> path, content |-> "unreadable", data |-> NoDetails, present |-> {}]

\* JSON.parse throws
UnparsableFile(path) ==
    [path |-> path, content |-> "unparsable", data |-> NoDetails, present |-> {}]

smodel == <<46, 115, 109, 111, 100, 101, 108>>

DiskPool ==
    { \* items/p/q/q.smodel: { types: ["stick", "apple"], texture: "q" }, q.png
      JsonFile(<<<<112>>, <<113>>, <<113>> \o smodel>>,
               [NoDetails EXCEPT !.types = <<<<stick, apple>>>>, !.texture = <<<<113>>>>],
               {<<113, 46, 112, 110, 103>>}),
      \* items/t.smodel: { type: "stick", model: "m", texture: "w" }, m.json and
      \* no w.png
      JsonFile(<<<<116>> \o smodel>>,
               [NoDetails EXCEPT !.type = <<stick>>, !.model = FileModel(<<109>>),
                                 !.texture = << <<119>> >>],
               {<<109>> \o dotJson}),
      UnreadableFile(<<<<117>> \o smodel>>),
      UnparsableFile(<<<<118>> \o smodel>>) }

\* Variant: the first file that fails ends the traversal.
RECURSIVE readFilesUntilFailure(_, _, _)
readFilesUntilFailure(work, files, i) ==
    IF i > Len(files) THEN work
    ELSE IF files[i].content = "json"
         THEN readFilesUntilFailure(
                  Append(work, fromDisk(files[i].data, files[i].path, files[i].present)),
                  files, i + 1)
         ELSE work

\* for await (const entry of walk(sourceDir, ...)): a file that is read and
\* parsed is pushed; a failure is logged and the loop goes on.
RECURSIVE readFiles(_, _, _)
readFiles(work, files, i) ==
    IF i > Len(files) THEN work
    ELSE IF files[i].content = "json"
         THEN readFiles(Append(work, fromDisk(files[i].data, files[i].path,
                                              files[i].present)),
                        files, i + 1)
         ELSE readFiles(work, files, i + 1)

\* modelsToProcess: the queue, then the files in traversal order
modelsToProcess(queue, files) ==
    readFiles([i \in 1..Len(queue) |-> fromQueue(queue[i])], files, 1)

NoRepeat(q) == \A i, j \in 1..Len(q) : i # j => q[i] # q[j]

\* The queues and the traversals of a run
Queues == {q \in SeqsUpTo(DefPool, MaxDefs) : NoRepeat(q)}

Traversals == {q \in SeqsUpTo(DiskPool, MaxFiles) : NoRepeat(q)}

NoModels == [keys |-> <<>>, refs |-> [t \in Types |-> <<>>]]

\* Variant: a key is recorded at every push.
pushModelKeyEveryTime(m, type, ref) ==
    [keys |-> Append(m.keys, type),
     refs |-> [m.refs EXCEPT ![type] = Append(@, ref)]]

\* if (!modelsAddedByType[type]) modelsAddedByType[type] = [];
\* modelsAddedByType[type].push(...)
pushModel(m, type, ref) ==
    [keys |-> IF type \in Range(m.keys) THEN m.keys ELSE Append(m.keys, type),
     refs |-> [m.refs EXCEPT ![type] = Append(@, ref)]]

\* Variant: a merge task for every known type.
typeListAllTypes(m) ==
    m.keys \o (CHOOSE q \in SeqsUpTo(Types, Cardinality(Types)) :
                  /\ Range(q) = Types \ Range(m.keys)
                  /\ Len(q) = Cardinality(Range(q)))

\* const typeList = Object.keys(modelsAddedByType)
typeList(m) == m.keys

\* join(mcItemsBase, `${type}.json`), below mcItemsBase
tablePath(type) == type \o dotJson

InitGen ==
    /\ queued \in Queues
    /\ diskFiles \in Traversals
    /\ Len(modelsToProcess(queued, diskFiles)) <= MaxDefs
    /\ worklist = <<>>
    /\ taskPos = <<>>
    /\ modelsAddedByType = NoModels
    /\ merged = {}
    /\ startTables \in UNION {{[t \in Types |-> IF t = u THEN f ELSE FileAbsent] :
                                   f \in {FileAbsent, HandTable(u), FileNullModel}} :
                                u \in Types}
    /\ tables = startTables
    /\ genPc = "read"

\* Lines 38-55: the worklist is built and a task is planned for each entry.
Collect ==
    /\ genPc = "read"
    /\ worklist' = modelsToProcess(queued, diskFiles)
    /\ taskPos' = [i \in 1..Len(worklist') |-> [done |-> 0, over |-> FALSE]]
    /\ genPc' = "start"
    /\ UNCHANGED <<queued, diskFiles, modelsAddedByType, merged, startTables, tables>>
    /\ UNCHANGED <<mergeVars, pipeVars, fnVars, entVars>>

\* if (modelsToProcess.length === 0) return; otherwise the tasks are created
\* (the reference dataset is in place).
StartTasks ==
    /\ genPc = "start"
    /\ genPc' = IF Len(worklist) = 0 THEN "done" ELSE "resolve"
    /\ UNCHANGED <<queued, diskFiles, worklist, taskPos, modelsAddedByType, merged, startTables, tables>>
    /\ UNCHANGED <<mergeVars, pipeVars, fnVars, entVars>>

\* Task i handles its next type: it throws (caught and logged, the task
\* ends) or records the model it wrote.
ResolveType(i) ==
    /\ genPc = "resolve"
    /\ i \in 1..Len(worklist)
    /\ ~taskPos[i].over
    /\ LET entry == worklist[i]
           itemTypes == getItemTypes(entry.data)
           k == taskPos[i].done + 1
       IN  IF Len(itemTypes) = 0 \/ resolveOneType(entry, itemTypes[k]).threw
           THEN /\ taskPos' = [taskPos EXCEPT ![i].over = TRUE]
                /\ UNCHANGED modelsAddedByType
           ELSE LET res == resolveOneType(entry, itemTypes[k])
                IN  /\ taskPos' = [taskPos EXCEPT
                                      ![i] = [done |-> k, over |-> k = Len(itemTypes)]]
                    /\ modelsAddedByType' =
                          pushModel(modelsAddedByType, itemTypes[k],
                                    [folder |-> res.folder, id |-> res.id])
    /\ UNCHANGED <<queued, diskFiles, worklist, merged, startTables, genPc, tables>>
    /\ UNCHANGED <<mergeVars, pipeVars, fnVars, entVars>>

\* Variant: the tasks are created and the merges start without the await.
tasksNotAwaited(pos) == TRUE

\* Promise.all(tasks) resolves once every task has settled; a task never
\* rejects, its whole body being inside try/catch.
tasksSettled(pos) == \A i \in DOMAIN pos : pos[i].over

\* await Promise.all(tasks)
Join ==
    /\ genPc = "resolve"
    /\ tasksSettled(taskPos)
    /\ genPc' = "merge"
    /\ UNCHANGED <<queued, diskFiles, worklist, taskPos, modelsAddedByType, merged, startTables, tables>>
    /\ UNCHANGED <<mergeVars, pipeVars, fnVars, entVars>>

\* Task number j of Promise.all(typeList.map(type => updateItemDefinition(...))).
\* A task that throws rejects the Promise.all; the other tasks still run.
MergeType(j) ==
    /\ genPc \in {"merge", "failed"}
    /\ j \in (1..Len(typeList(modelsAddedByType))) \ merged
    /\ LET type == typeList(modelsAddedByType)[j]
           res == updateItemDefinition(tables[type], type, modelsAddedByType.refs[type])
       IN  /\ tables' = [tables EXCEPT ![type] = res.file]
           /\ genPc' = IF res.threw THEN "failed" ELSE genPc
    /\ merged' = merged \cup {j}
    /\ UNCHANGED <<queued, diskFiles, worklist, taskPos, modelsAddedByType, startTables>>
    /\ UNCHANGED <<mergeVars, pipeVars, fnVars, entVars>>

\* Every merge task has completed without throwing.
Finish ==
    /\ genPc = "merge"
    /\ merged = 1..Len(typeList(modelsAddedByType))
    /\ genPc' = "done"
    /\ UNCHANGED <<queued, diskFiles, worklist, taskPos, modelsAddedByType, merged, startTables, tables>>
    /\ UNCHANGED <<mergeVars, pipeVars, fnVars, entVars>>

NextGen ==
    \/ Collect
    \/ StartTasks
    \/ \E i \in 1..MaxDefs : ResolveType(i)
    \/ Join
    \/ \E j \in 1..Cardinality(Types) : MergeType(j)
    \/ Finish

MergeIdle == last = NoCall /\ prev = NoCall /\ nMerges = 0

GenInit == InitGen /\ MergeIdle /\ PipeIdle /\ FnIdle /\ EntIdle

SpecGen == GenInit /\ [][NextGen]_vars

----------------------------------------------------------------------------
(* Spec: the buildPack calls of one process (src/main.ts).  run() awaits   *)
(* the first buildPack; in watch mode every later one is started by the    *)
(* debounce timer, whether or not the previous one has returned.  A        *)
(* generator is a producer (it calls ItemModel.add, like blockItemModel    *)
(* and glowingReview), the item generator (it drains the queue), or plain. *)
(* The item generator's resolution and merges are SpecGen's subject; here  *)
(* they are one step that succeeds or throws.  A rejected buildPack is     *)
(* handled by no caller, which ends the Deno process.                      *)

DefaultLoadPriority == 1
BlockLoadPriority == 9
ItemLoadPriority == 10

ModulePool ==
    { [name |-> "palm/glowingReview", kind |-> "producer", hasPriority |-> FALSE,
       loadPriority |-> 0, load |-> "ok"],
      [name |-> "custom", kind |-> "plain", hasPriority |-> TRUE,
       loadPriority |-> DefaultLoadPriority, load |-> "ok"],
      [name |-> "internal/blockItemModel", kind |-> "producer", hasPriority |-> TRUE,
       loadPriority |-> BlockLoadPriority, load |-> "ok"],
      [name |-> "internal/itemModel", kind |-> "item", hasPriority |-> TRUE,
       loadPriority |-> ItemLoadPriority, load |-> "ok"],
      [name |-> "broken", kind |-> "plain", hasPriority |-> FALSE,
       loadPriority |-> 0, load |-> "throws"],
      [name |-> "helper", kind |-> "plain", hasPriority |-> FALSE,
       loadPriority |-> 0, load |-> "noDefault"] }

\* The generators folder holds internal/itemModel.ts and other modules.
Discoveries == {q \in SeqsUpTo(ModulePool, MaxModules) :
                   /\ \A i, j \in 1..Len(q) : i # j => q[i] # q[j]
                   /\ \E i \in 1..Len(q) : q[i].kind = "item"}

IdleRun ==
    [pc |-> "idle", startQueue |-> <<>>, generators |-> <<>>,
     excluded |-> {}, execIdx |-> 1, active |-> {}, started |-> <<>>,
     gpc |-> "none", itemWork |-> <<>>, vanilla |-> "none", clears |-> 0,
     emitted |-> {}]

Init ==
    /\ discovered \in Discoveries
    /\ diskDefs \in 0..1
    /\ runs = [r \in 1..MaxRuns |-> IdleRun]
    /\ modelQueue = <<>>
    /\ process = "running"

\* Variant: a module without loadPriority sorts as priority 0.
priorityOfDefaultZero(module) ==
    IF module.hasPriority THEN module.loadPriority ELSE 0

\* module.loadPriority ?? 1
priorityOf(module) ==
    IF module.hasPriority THEN module.loadPriority ELSE DefaultLoadPriority

\* The body of the walk loop: the import throws (caught, logged), or the
\* module is pushed when typeof module.default === "function".
collect(generators, idx, module) ==
    IF module.load = "ok" THEN Append(generators, idx) ELSE generators

\* Array.prototype.sort is stable: g goes behind every element that does
\* not compare greater than it.
insertByPriority(sorted, g) ==
    LET k == Cardinality({i \in 1..Len(sorted) :
                             priorityOf(discovered[sorted[i]]) - priorityOf(discovered[g]) <= 0})
    IN  SubSeq(sorted, 1, k) \o <<g>> \o SubSeq(sorted, k + 1, Len(sorted))

RECURSIVE sortFrom(_, _, _)
sortFrom(sorted, generators, i) ==
    IF i > Len(generators) THEN sorted
    ELSE sortFrom(insertByPriority(sorted, generators[i]), generators, i + 1)

sortGenerators(generators) == sortFrom(<<>>, generators, 1)

\* runFullProcess / buildPack is entered: by run() for the first call, by
\* the debounce timer for the later ones (the watcher exists only after the
\* first call has returned).
StartRun(r) ==
    /\ process = "running"
    /\ runs[r].pc = "idle"
    /\ r = 1 \/ (runs[1].pc = "done" /\ runs[r - 1].pc # "idle")
    /\ runs' = [runs EXCEPT ![r].pc = "collect", ![r].startQueue = modelQueue]
    /\ UNCHANGED <<discovered, diskDefs, modelQueue, process>>
    /\ UNCHANGED <<tables, mergeVars, genVars, fnVars, entVars>>

\* for await (const entry of walk(GENERATORS_DIR, { exts: [".ts"] })),
\* from entry number idx on.
RECURSIVE walkFrom(_, _)
walkFrom(generators, idx) ==
    IF idx > Len(discovered) THEN generators
    ELSE walkFrom(collect(generators, idx, discovered[idx]), idx + 1)

\* main.ts:93-114: the walk and the sort.  They read the generators folder
\* and write the call's own array only.
CollectGenerators(r) ==
    /\ process = "running"
    /\ runs[r].pc = "collect"
    /\ LET generators == walkFrom(<<>>, 1)
       IN  runs' = [runs EXCEPT
                       ![r].generators = sortGenerators(generators),
                       ![r].excluded = (1..Len(discovered)) \ Range(generators),
                       ![r].pc = "exec"]
    /\ UNCHANGED <<discovered, diskDefs, modelQueue, process>>
    /\ UNCHANGED <<tables, mergeVars, genVars, fnVars, entVars>>

\* await module.default(PACK_DIR, specificBuildDir): the next generator is
\* entered once the previous one's promise has been awaited.
Invoke(r) ==
    /\ process = "running"
    /\ runs[r].pc = "exec"
    /\ runs[r].active = {}
    /\ runs[r].execIdx <= Len(runs[r].generators)
    /\ LET g == runs[r].generators[runs[r].execIdx]
           kind == discovered[g].kind
       IN  runs' = [runs EXCEPT
                       ![r].active = {g},
                       ![r].started = Append(@, g),
                       ![r].gpc = CASE kind = "producer" -> "producing"
                                    [] kind = "item" -> "item_start"
                                    [] OTHER -> "settling"]
    /\ UNCHANGED <<discovered, diskDefs, modelQueue, process>>
    /\ UNCHANGED <<tables, mergeVars, genVars, fnVars, entVars>>

\* ItemModel.add(model), called by a producer
ProducerAdd(r) ==
    /\ process = "running"
    /\ runs[r].gpc = "producing"
    /\ \E g \in runs[r].active :
          modelQueue' = Append(modelQueue, [run |-> r, by |-> g])
    /\ runs' = [runs EXCEPT ![r].gpc = "settling"]
    /\ UNCHANGED <<discovered, diskDefs, process>>
    /\ UNCHANGED <<tables, mergeVars, genVars, fnVars, entVars>>

\* The generator's promise is fulfilled; the for loop goes on.
Settle(r) ==
    /\ process = "running"
    /\ runs[r].gpc = "settling"
    /\ runs' = [runs EXCEPT ![r].active = {}, ![r].gpc = "none", ![r].execIdx = @ + 1]
    /\ UNCHANGED <<discovered, diskDefs, modelQueue, process>>
    /\ UNCHANGED <<tables, mergeVars, genVars, fnVars, entVars>>

\* The generator's promise is rejected.  The await at main.ts:119 is in no
\* try block, so buildPack rejects, and so does run() or the timer callback.
Throw(r) ==
    /\ process = "running"
    /\ runs[r].gpc \in {"producing", "settling"}
    /\ \A g \in runs[r].active : discovered[g].kind # "item"
    /\ runs' = [runs EXCEPT ![r].pc = "rejected", ![r].gpc = "threw"]
    /\ process' = "crashed"
    /\ UNCHANGED <<discovered, diskDefs, modelQueue>>
    /\ UNCHANGED <<tables, mergeVars, genVars, fnVars, entVars>>

\* return specificBuildDir
Return(r) ==
    /\ process = "running"
    /\ runs[r].pc = "exec"
    /\ runs[r].active = {}
    /\ runs[r].execIdx > Len(runs[r].generators)
    /\ runs' = [runs EXCEPT ![r].pc = "done"]
    /\ UNCHANGED <<discovered, diskDefs, modelQueue, process>>
    /\ UNCHANGED <<tables, mergeVars, genVars, fnVars, entVars>>

DiskWork == [i \in 1..diskDefs |-> [run |-> 0, by |-> i]]

\* itemModel.ts:38-57: the queue and the files on disk make the worklist;
\* an empty worklist returns at once.
ItemRead(r) ==
    /\ process = "running"
    /\ runs[r].gpc = "item_start"
    /\ LET work == modelQueue \o DiskWork
       IN  runs' = [runs EXCEPT ![r].itemWork = work,
                                ![r].gpc = IF Len(work) = 0 THEN "settling"
                                           ELSE "item_vanilla"]
    /\ UNCHANGED <<discovered, diskDefs, modelQueue, process>>
    /\ UNCHANGED <<tables, mergeVars, genVars, fnVars, entVars>>

\* The ways ensureVanillaAssets() does not return: Deno.exit(1) when
\* minecraftVersion is missing, when the HEAD request or the download is not
\* ok, and when the archive holds no assets folder; an exception when fetch
\* rejects and when the archive does not decompress.
VanillaExits == {"noVersion", "headNotOk", "downloadNotOk", "noAssets"}
VanillaThrows == {"fetchRejects", "unzipFails"}
VanillaFailures == VanillaExits \cup VanillaThrows

\* Variant: generate catches what ensureVanillaAssets throws and goes on.
afterVanillaCaught(outcome) ==
    CASE outcome = "ok" -> [gpc |-> "item_merge", rejected |-> FALSE, process |-> "running"]
      [] outcome \in VanillaExits ->
            [gpc |-> "exited", rejected |-> FALSE, process |-> "exited"]
      [] OTHER -> [gpc |-> "item_merge", rejected |-> FALSE, process |-> "running"]

\* const assetsBase = await ensureVanillaAssets(), in no try block: an
\* exception rejects generate, buildPack and the caller.
afterVanilla(outcome) ==
    CASE outcome = "ok" -> [gpc |-> "item_merge", rejected |-> FALSE, process |-> "running"]
      [] outcome \in VanillaExits ->
            [gpc |-> "exited", rejected |-> FALSE, process |-> "exited"]
      [] OTHER -> [gpc |-> "threw", rejected |-> TRUE, process |-> "crashed"]

ItemVanilla(r) ==
    /\ process = "running"
    /\ runs[r].gpc = "item_vanilla"
    /\ \E outcome \in {"ok"} \cup VanillaFailures :
          LET after == afterVanilla(outcome)
          IN  /\ runs' = [runs EXCEPT
                             ![r].vanilla = outcome,
                             ![r].gpc = after.gpc,
                             ![r].pc = IF after.rejected THEN "rejected" ELSE @]
              /\ process' = after.process
    /\ UNCHANGED <<discovered, diskDefs, modelQueue>>
    /\ UNCHANGED <<tables, mergeVars, genVars, fnVars, entVars>>

\* itemModel.ts:64-513: resolution, merges and the summary file.  A merge
\* task or the summary write may throw.
ItemResolveMerge(r) ==
    /\ process = "running"
    /\ runs[r].gpc = "item_merge"
    /\ \E outcome \in {"ok", "throw"} :
          /\ runs' = [runs EXCEPT
                         ![r].emitted = Range(runs[r].itemWork),
                         ![r].gpc = IF outcome = "ok" THEN "item_clear" ELSE "threw",
                         ![r].pc = IF outcome = "ok" THEN @ ELSE "rejected"]
          /\ process' = IF outcome = "ok" THEN process ELSE "crashed"
    /\ UNCHANGED <<discovered, diskDefs, modelQueue>>
    /\ UNCHANGED <<tables, mergeVars, genVars, fnVars, entVars>>

\* ItemModel.clearQueue(), the last statement of generate
ItemClear(r) ==
    /\ process = "running"
    /\ runs[r].gpc = "item_clear"
    /\ modelQueue' = <<>>
    /\ runs' = [runs EXCEPT ![r].clears = @ + 1, ![r].gpc = "settling"]
    /\ UNCHANGED <<discovered, diskDefs, process>>
    /\ UNCHANGED <<tables, mergeVars, genVars, fnVars, entVars>>

Next ==
    \E r \in 1..MaxRuns :
        \/ StartRun(r)
        \/ CollectGenerators(r)
        \/ Invoke(r)
        \/ ProducerAdd(r)
        \/ Settle(r)
        \/ Throw(r)
        \/ Return(r)
        \/ ItemRead(r)
        \/ ItemVanilla(r)
        \/ ItemResolveMerge(r)
        \/ ItemClear(r)

TablesIdle == tables = [t \in Types |-> FileAbsent]

PipeInit == Init /\ TablesIdle /\ MergeIdle /\ GenIdle /\ FnIdle /\ EntIdle

Spec == PipeInit /\ [][Next]_vars

----------------------------------------------------------------------------
(* SpecHash: generateUniqueThreshold applied to one string.                *)

HashAlphabet == {97, 122, 47}           \* "a", "z", "/"

HashStrings == SeqsUpTo(HashAlphabet, MaxStrLen)

OthersIdle == TablesIdle /\ MergeIdle /\ GenIdle /\ PipeIdle /\ EntIdle /\ CacheIdle

HashInit ==
    /\ call \in {[fn |-> "generateUniqueThreshold", input |-> str, output |-> <<>>,
                  done |-> FALSE] : str \in HashStrings}
    /\ OthersIdle

ComputeThreshold ==
    /\ call.fn = "generateUniqueThreshold"
    /\ ~call.done
    /\ call' = [call EXCEPT !.output = <<generateUniqueThreshold(call.input)>>,
                            !.done = TRUE]
    /\ UNCHANGED <<tables, cache, mergeVars, genVars, pipeVars, entVars>>

SpecHash == HashInit /\ [][ComputeThreshold]_vars

----------------------------------------------------------------------------
(* applyVariableSubstitution.                                              *)
(* The template is serialised to JSON text, every occurrence of a quoted   *)
(* token in the text is replaced, and the text is parsed again.  A JSON    *)
(* value is a string or an object with ordered members; texts are read     *)
(* and written character by character.  The texts here hold no white       *)
(* space, no escape other than \" \\ \/ and no key that is an integer.     *)

Quote == 34
Backslash == 92
Dollar == 36
Ampersand == 38
LBrace == 123
RBrace == 125
Colon == 58
Comma == 44

Str(chars) == [kind |-> "str", chars |-> chars, members |-> <<>>]
Obj(members) == [kind |-> "obj", chars |-> <<>>, members |-> members]
Member(key, value) == [key |-> key, value |-> value]

RECURSIVE escapeString(_)
escapeString(chars) ==
    IF chars = <<>> THEN <<>>
    ELSE (IF Head(chars) \in {Quote, Backslash} THEN <<Backslash, Head(chars)>>
                                                 ELSE <<Head(chars)>>)
         \o escapeString(Tail(chars))

quoted(chars) == <<Quote>> \o escapeString(chars) \o <<Quote>>

\* JSON.stringify of a value
RECURSIVE stringify(_)
RECURSIVE stringifyMembers(_, _)
stringify(node) ==
    IF node.kind = "str" THEN quoted(node.chars)
    ELSE <<LBrace>> \o stringifyMembers(node.members, 1) \o <<RBrace>>

stringifyMembers(ms, i) ==
    IF i > Len(ms) THEN <<>>
    ELSE (IF i > 1 THEN <<Comma>> ELSE <<>>) \o quoted(ms[i].key) \o <<Colon>>
         \o stringify(ms[i].value) \o stringifyMembers(ms, i + 1)

\* The replacement string of String.prototype.replace: $$ is a dollar sign,
\* $& the matched text
RECURSIVE expandReplacement(_, _)
expandReplacement(repl, matched) ==
    IF Dollar \notin Range(repl) THEN repl
    ELSE IF Len(repl) >= 2 /\ repl[1] = Dollar /\ repl[2] = Dollar
         THEN <<Dollar>> \o expandReplacement(SubSeq(repl, 3, Len(repl)), matched)
    ELSE IF Len(repl) >= 2 /\ repl[1] = Dollar /\ repl[2] = Ampersand
         THEN matched \o expandReplacement(SubSeq(repl, 3, Len(repl)), matched)
    ELSE <<Head(repl)>> \o expandReplacement(Tail(repl), matched)

matchesAt(text, pat, i) ==
    /\ i + Len(pat) - 1 <= Len(text)
    /\ SubSeq(text, i, i + Len(pat) - 1) = pat

\* text.replace(new RegExp(pat, "g"), repl) for a literal pattern
RECURSIVE replaceAll(_, _, _)
replaceAll(text, pat, repl) ==
    LET hits == {i \in 1..Len(text) : matchesAt(text, pat, i)}
    IN  IF hits = {} THEN text
        ELSE LET i == CHOOSE k \in hits : \A j \in hits : k <= j
             IN  SubSeq(text, 1, i - 1) \o expandReplacement(repl, pat)
                 \o replaceAll(SubSeq(text, i + Len(pat), Len(text)), pat, repl)

ParseError == [ok |-> FALSE, node |-> Str(<<>>), next |-> 0]

\* Number of backslashes directly before text[j] inside the string literal
\* that opens at text[i]
backslashesBefore(text, j, i) ==
    LET stops == {k \in i..(j - 1) : text[k] # Backslash}
        lastStop == CHOOSE k \in stops : \A m \in stops : m <= k
    IN  j - 1 - lastStop

closingQuote(text, i) ==
    LET cands == {j \in (i + 1)..Len(text) :
                     text[j] = Quote /\ backslashesBefore(text, j, i) % 2 = 0}
    IN  IF cands = {} THEN 0 ELSE CHOOSE j \in cands : \A m \in cands : j <= m

\* The string literal at text[i]
parseString(text, i) ==
    LET j == closingQuote(text, i)
        escapes == {k \in (i + 1)..(j - 1) :
                       text[k] = Backslash /\ backslashesBefore(text, k, i) % 2 = 0}
        kept == ((i + 1)..(j - 1)) \ escapes
        nth(n) == CHOOSE k \in kept : Cardinality({m \in kept : m <= k}) = n
        valid == \A k \in escapes : text[k + 1] \in {Quote, Backslash, 47}
    IN  IF i > Len(text) \/ text[i] # Quote \/ j = 0 \/ ~valid THEN ParseError
        ELSE [ok |-> TRUE,
              node |-> Str([n \in 1..Cardinality(kept) |-> text[nth(n)]]),
              next |-> j + 1]

\* A repeated key keeps its first position and takes the last value
setMember(ms, key, value) ==
    IF \E n \in 1..Len(ms) : ms[n].key = key
    THEN [n \in 1..Len(ms) |-> IF ms[n].key = key THEN Member(key, value) ELSE ms[n]]
    ELSE Append(ms, Member(key, value))

RECURSIVE parseValue(_, _)
RECURSIVE parseMembers(_, _, _)
parseValue(text, i) ==
    IF i > Len(text) THEN ParseError
    ELSE IF text[i] = Quote THEN parseString(text, i)
    ELSE IF text[i] = LBrace
         THEN IF i + 1 <= Len(text) /\ text[i + 1] = RBrace
              THEN [ok |-> TRUE, node |-> Obj(<<>>), next |-> i + 2]
              ELSE parseMembers(text, i + 1, <<>>)
    ELSE ParseError

\* The members of an object from text[i] on, acc holding the earlier ones
parseMembers(text, i, acc) ==
    LET k == parseString(text, i)
    IN  IF ~k.ok \/ k.next > Len(text) \/ text[k.next] # Colon THEN ParseError
        ELSE LET v == parseValue(text, k.next + 1)
             IN  IF ~v.ok \/ v.next > Len(text) THEN ParseError
                 ELSE LET more == setMember(acc, k.node.chars, v.node)
                      IN  IF text[v.next] = RBrace
                          THEN [ok |-> TRUE, node |-> Obj(more), next |-> v.next + 1]
                          ELSE IF text[v.next] = Comma
                               THEN parseMembers(text, v.next + 1, more)
                          ELSE ParseError

\* JSON.parse: the value, or a SyntaxError
JSONparse(text) ==
    LET r == parseValue(text, 1)
    IN  IF r.ok /\ r.next = Len(text) + 1
        THEN [threw |-> FALSE, value |-> r.node]
        ELSE [threw |-> TRUE, value |-> Str(<<>>)]

\* typeof val === "string" ? `"${val}"` : JSON.stringify(val)
replacementText(val) ==
    IF val.kind = "str" THEN <<Quote>> \o val.chars \o <<Quote>> ELSE stringify(val)

RECURSIVE substituteFrom(_, _, _)
substituteFrom(result, replacements, n) ==
    IF n > Len(replacements) THEN result
    ELSE substituteFrom(replaceAll(result,
                                   <<Quote>> \o replacements[n].key \o <<Quote>>,
                                   replacementText(replacements[n].val)),
                        replacements, n + 1)

applyVariableSubstitution(definition, replacements) ==
    JSONparse(substituteFrom(stringify(definition), replacements, 1))

tokFallback == <<36, 102, 97, 108, 108, 98, 97, 99, 107>>   \* "$fallback"
tokModel == <<36, 109, 111, 100, 101, 108>>                 \* "$model"
tokType == <<36, 116, 121, 112, 101>>                       \* "$type"
tokParent == <<36, 112, 97, 114, 101, 110, 116>>            \* "$parent"
tokFolder == <<36, 102, 111, 108, 100, 101, 114>>           \* "$folder"
tokId == <<36, 105, 100>>                                   \* "$id"

keyType == <<116, 121, 112, 101>>                           \* "type"
keyModel == <<109, 111, 100, 101, 108>>                     \* "model"
itemPrefix == <<105, 116, 101, 109, 47>>                    \* "item/"
supermodelItem ==                                           \* "supermodel:item/"
    <<115, 117, 112, 101, 114, 109, 111, 100, 101, 108, 58, 105, 116, 101, 109, 47>>
minecraftItem ==                                            \* "minecraft:item/"
    <<109, 105, 110, 101, 99, 114, 97, 102, 116, 58, 105, 116, 101, 109, 47>>

\* { type: "model", model: <path> }
modelNode(path) == Obj(<<Member(keyType, Str(keyModel)), Member(keyModel, Str(path))>>)

\* vanillaFallback ? vanillaFallback : { type: "model", model: `item/${type}` }
fallbackNode(type, vanillaFallback) ==
    IF vanillaFallback # <<>> THEN vanillaFallback[1] ELSE modelNode(itemPrefix \o type)

\* The replacements updateItemDefinition passes for one reference, in the
\* order of the object literal
replacementsOf(type, vanillaFallback, ref) ==
    << [key |-> tokFallback, val |-> fallbackNode(type, vanillaFallback)],
       [key |-> tokModel,    val |-> Str(supermodelItem \o ref.folder \o Slash \o ref.id)],
       [key |-> tokType,     val |-> Str(type)],
       [key |-> tokParent,   val |-> Str(IF ref.parent = <<>> THEN <<>> ELSE ref.parent[1])],
       [key |-> tokFolder,   val |-> Str(ref.folder)],
       [key |-> tokId,       val |-> Str(ref.id)] >>

----------------------------------------------------------------------------
(* SpecSubst: applyVariableSubstitution applied to one override definition *)
(* with the replacements of one reference.                                 *)

keyA == <<97>>
keyB == <<98>>

Templates ==
    { Obj(<<Member(keyModel, Str(tokModel))>>),                  \* {"model":"$model"}
      Obj(<<Member(keyType, Str(tokType)),
            Member(keyA, Str(tokFallback))>>),                   \* {"type":"$type","a":"$fallback"}
      Obj(<<Member(keyA, Obj(<<Member(keyA, Str(tokParent)),
                               Member(keyB, Str(tokFolder))>>)),
            Member(keyB, Str(tokId))>>),                         \* {"a":{"a":"$parent","b":"$folder"},"b":"$id"}
      Obj(<<Member(keyA, Str(keyB))>>),                          \* {"a":"b"}
      Obj(<<Member(keyA, Str(<<97, 36, 105, 100>>))>>),          \* {"a":"a$id"}
      Obj(<<Member(keyA, Str(<<120, 34, 36, 105, 100>>))>>),     \* {"a":"x\"$id"}
      Obj(<<Member(tokId, Str(keyA))>>),                         \* {"$id":"a"}
      Obj(<<Member(tokFallback, Str(keyA))>>) }                  \* {"$fallback":"a"}

SubstRefs ==
    { [parent |-> par, folder |-> r.folder, id |-> r.id] :
        par \in {<<>>, <<<<112>>>>, <<tokId>>},
        r \in { [folder |-> <<120>>, id |-> <<120>>],            \* x / x
                [folder |-> <<112, 47, 120>>, id |-> <<120>>],   \* p/x / x
                [folder |-> <<120>>, id |-> <<97, 34, 98>>] } }  \* x / a"b

VanillaFallbacks == {<<>>, <<modelNode(minecraftItem \o apple)>>}

SubstInit ==
    /\ call \in {[fn |-> "applyVariableSubstitution",
                  input |-> [definition |-> t, replacements |-> replacementsOf(type, v, ref)],
                  output |-> <<>>, done |-> FALSE] :
                    t \in Templates, type \in Types, v \in VanillaFallbacks, ref \in SubstRefs}
    /\ OthersIdle

Substitute ==
    /\ call.fn = "applyVariableSubstitution"
    /\ ~call.done
    /\ call' = [call EXCEPT
                  !.output = <<applyVariableSubstitution(call.input.definition,
                                                         call.input.replacements)>>,
                  !.done = TRUE]
    /\ UNCHANGED <<tables, cache, mergeVars, genVars, pipeVars, entVars>>

SpecSubst == SubstInit /\ [][Substitute]_vars

----------------------------------------------------------------------------
(* SpecTypes: the type list of one definition (getItemTypes and the check  *)
(* of generate, lines 65-66), for every combination of a per-type model    *)
(* map, a type list and a single type, each absent, empty or filled.       *)

anyModel == InlineModel(<<>>, <<<<>>>>, TRUE, <<>>)

\* models: absent, {}, { apple: ... }, { stick: ..., apple: ... }
ModelMaps ==
    { <<>>, << <<>> >>,
      << << [key |-> apple, value |-> anyModel] >> >>,
      << << [key |-> stick, value |-> anyModel], [key |-> apple, value |-> anyModel] >> >> }

\* types: absent, [], ["apple"], ["stick", "apple"]
TypeLists == { <<>>, << <<>> >>, << <<apple>> >>, << <<stick, apple>> >> }

\* type: absent, "", "apple", "stick"
SingleTypes == { <<>>, << <<>> >>, <<apple>>, <<stick>> }

TypesInit ==
    /\ call \in {[fn |-> "getItemTypes",
                  input |-> [NoDetails EXCEPT !.models = m, !.types = l, !.type = t],
                  output |-> <<>>, done |-> FALSE] :
                    m \in ModelMaps, l \in TypeLists, t \in SingleTypes}
    /\ OthersIdle

\* const itemTypes = getItemTypes(data);
\* if (itemTypes.length === 0) throw new Error("Definition has no defined item type(s).");
DetermineTypes ==
    /\ call.fn = "getItemTypes"
    /\ ~call.done
    /\ LET itemTypes == getItemTypes(call.input)
       IN  call' = [call EXCEPT
                      !.output = <<[itemTypes |-> itemTypes,
                                    threw |-> Len(itemTypes) = 0]>>,
                      !.done = TRUE]
    /\ UNCHANGED <<tables, cache, mergeVars, genVars, pipeVars, entVars>>

SpecTypes == TypesInit /\ [][DetermineTypes]_vars

----------------------------------------------------------------------------
(* SpecAlign: the texture map of one definition aligned against the        *)
(* textures a model declares (gatherTextureMap at line 69, alignTextureMap *)
(* at lines 118 and 144).  The declared textures are absent (<<>>) or the  *)
(* sequence of their keys in key order (<< keys >>).                       *)

\* The key of a map made from the single texture name is replaced by the
\* first key of the textures the model declares, if it declares any.
alignTextureMap(baseMap, cameFromSingle, modelTextures) ==
    IF ~cameFromSingle \/ Len(baseMap) # 1 THEN baseMap
    ELSE IF modelTextures # <<>> /\ Len(modelTextures[1]) > 0
         THEN <<[key |-> modelTextures[1][1], file |-> baseMap[1].file]>>
         ELSE baseMap

keyBody == <<98, 111, 100, 121>>        \* "body"
keyTop == <<116, 111, 112>>             \* "top"

\* texture: absent, "", "s", "t.png"
TextureNames == { <<>>, << <<>> >>, << <<115>> >>, << <<116, 46, 112, 110, 103>> >> }

\* textures: absent or {}, { body: "s" }, { body: "s", top: "t" }
TextureMaps ==
    { <<>>,
      <<[key |-> keyBody, file |-> <<115>>]>>,
      <<[key |-> keyBody, file |-> <<115>>], [key |-> keyTop, file |-> <<116>>]>> }

\* The model's textures: none, {}, { top }, { top, body }, { body, layer0 }
DeclaredTextures ==
    { <<>>, << <<>> >>, << <<keyTop>> >>, << <<keyTop, keyBody>> >>,
      << <<keyBody, layer0>> >> }

AlignInit ==
    /\ call \in {[fn |-> "alignTextureMap",
                  input |-> [data |-> [NoDetails EXCEPT !.texture = t, !.textures = m],
                             modelTextures |-> d],
                  output |-> <<>>, done |-> FALSE] :
                    t \in TextureNames, m \in TextureMaps, d \in DeclaredTextures}
    /\ OthersIdle

\* const { map: textureMap, hasSingleTexture } = gatherTextureMap(data);
\* const alignedTextureMap = alignTextureMap(textureMap, hasSingleTexture, modelData);
AlignTextures ==
    /\ call.fn = "alignTextureMap"
    /\ ~call.done
    /\ LET gathered == gatherTextureMap(call.input.data)
       IN  call' = [call EXCEPT
                      !.output = <<alignTextureMap(gathered.map, gathered.hasSingleTexture,
                                                   call.input.modelTextures)>>,
                      !.done = TRUE]
    /\ UNCHANGED <<tables, cache, mergeVars, genVars, pipeVars, entVars>>

SpecAlign == AlignInit /\ [][AlignTextures]_vars

----------------------------------------------------------------------------
(* SpecSource: the model source of one type of one queued definition and   *)
(* the default model written when there is none (generate, lines 77-107).  *)

\* `supermodel:item/${modelFolder}/${stripExtension(stdBasename(textureFile))}`
buildTexturePath(modelFolder, textureFile) ==
    <<"supermodel:item/", modelFolder \o Slash \o stripExtension(stdBasename(textureFile))>>

\* undefined (<<>>) for an empty map, else the map with every file resolved
buildResolvedTextureMap(textureMap, modelFolder) ==
    IF Len(textureMap) = 0 THEN <<>>
    ELSE <<[i \in 1..Len(textureMap) |->
              [key |-> textureMap[i].key,
               path |-> buildTexturePath(modelFolder, textureMap[i].file)]]>>

defaultItemModel(modelFolder, textureMap) ==
    LET resolved == buildResolvedTextureMap(textureMap, modelFolder)
    IN  [parent |-> "minecraft:item/generated",
         textures |-> IF resolved # <<>> THEN resolved[1]
                      ELSE <<[key |-> layer0,
                              path |-> buildTexturePath(modelFolder,
                                          stdBasename(modelFolder) \o dotPng)]>>]

inlineM == InlineModel(<<>>, <<<<109>>>>, TRUE, <<>>)       \* name "m"

\* models: absent, { apple: "r.json" }, { apple: {...}, stick: "m" },
\* { apple: undefined, stick: "m" }
SourceModelMaps ==
    { <<>>,
      << << [key |-> apple, value |-> FileModel(<<114>> \o dotJson)] >> >>,
      << << [key |-> apple, value |-> inlineM],
            [key |-> stick, value |-> FileModel(<<109>>)] >> >>,
      << << [key |-> apple, value |-> UndefinedModel],
            [key |-> stick, value |-> FileModel(<<109>>)] >> >> }

\* model: absent, "n", { name: "m", data: {} }
SourceModels == {UndefinedModel, FileModel(<<110>>), inlineM}

SourceInit ==
    /\ call \in {[fn |-> "resolveModelForType",
                  input |-> [data |-> d, type |-> type],
                  output |-> <<>>, done |-> FALSE] :
                    d \in {[NoDetails EXCEPT !.types = << <<apple, stick>> >>,
                                             !.models = mm, !.model = m,
                                             !.texture = t, !.textures = tm] :
                              mm \in SourceModelMaps, m \in SourceModels,
                              t \in {<<>>, << <<115>> >>},
                              tm \in {<<>>, <<[key |-> keyBody, file |-> <<115>>],
                                             [key |-> keyTop, file |-> <<116>>]>>}},
                    type \in Types}
    /\ call.input.type \in Range(getItemTypes(call.input.data))
    /\ OthersIdle

\* Lines 77-78 and 95-107 for one type of a queued definition: the source is
\* chosen; without one the default model is written, or the task throws.
ResolveSource ==
    /\ call.fn = "resolveModelForType"
    /\ ~call.done
    /\ LET data == call.input.data
           type == call.input.type
           textureMap == gatherTextureMap(data).map
           perTypeModel == resolveModelForType(data, type)
           modelFolder == resolveModelFolder(perTypeModel, type, textureMap,
                                             parentFolderOf(fromQueue(data)))
       IN  call' = [call EXCEPT
                      !.output = <<[source |-> perTypeModel,
                                    threw |-> resolveOneType(fromQueue(data), type).threw,
                                    written |->
                                       IF perTypeModel.kind = "undefined"
                                          /\ Len(textureMap) > 0
                                       THEN <<defaultItemModel(modelFolder, textureMap)>>
                                       ELSE <<>>]>>,
                      !.done = TRUE]
    /\ UNCHANGED <<tables, cache, mergeVars, genVars, pipeVars, entVars>>

SpecSource == SourceInit /\ [][ResolveSource]_vars

----------------------------------------------------------------------------
(* SpecFolder: the output folder of one type of one definition read from a *)
(* file (generate, lines 73-78).                                           *)

\* Paths below assets/supermodel/items with 1 to 5 segments:
\* d.smodel, a/d.smodel, a/b/d.smodel, a/b/c/d.smodel, a/b/c/e/d.smodel
FolderPaths ==
    { << <<100>> \o smodel >>,
      << <<97>>, <<100>> \o smodel >>,
      << <<97>>, <<98>>, <<100>> \o smodel >>,
      << <<97>>, <<98>>, <<99>>, <<100>> \o smodel >>,
      << <<97>>, <<98>>, <<99>>, <<101>>, <<100>> \o smodel >> }

\* model: absent, "n.json", { name: "m", data: {} } without parent, with
\* parent "Aa/x", with parent ""
FolderModels ==
    { UndefinedModel, FileModel(<<110>> \o dotJson), inlineM,
      InlineModel(<< <<65, 97>> \o Slash \o <<120>> >>, <<<<109>>>>, TRUE, <<>>),
      InlineModel(<< <<>> >>, <<<<109>>>>, TRUE, <<>>) }

FolderInit ==
    /\ call \in {[fn |-> "resolveModelFolder",
                  input |-> [data |-> [NoDetails EXCEPT !.types = << <<apple, stick>> >>,
                                                       !.model = m, !.texture = t],
                             filePath |-> path, type |-> type],
                  output |-> <<>>, done |-> FALSE] :
                    m \in FolderModels, t \in {<<>>, << <<115>> >>},
                    path \in FolderPaths, type \in Types}
    /\ OthersIdle

\* const parentFolder = isFromFile && filePath ? extractParentFolder(...) : ...
\* const modelFolder = resolveModelFolder(perTypeModel, data, type, textureMap, parentFolder)
ResolveFolder ==
    /\ call.fn = "resolveModelFolder"
    /\ ~call.done
    /\ LET data == call.input.data
           entry == fromDisk(data, call.input.filePath, {})
       IN  call' = [call EXCEPT
                      !.output = <<resolveModelFolder(
                                      resolveModelForType(data, call.input.type),
                                      call.input.type, gatherTextureMap(data).map,
                                      parentFolderOf(entry))>>,
                      !.done = TRUE]
    /\ UNCHANGED <<tables, cache, mergeVars, genVars, pipeVars, entVars>>

SpecFolder == FolderInit /\ [][ResolveFolder]_vars

----------------------------------------------------------------------------
(* SpecPersist: one updateItemDefinition call with the steps of its write  *)
(* (lines 875-876).  Deno.writeTextFile opens the table file itself with   *)
(* create and truncate, writes the text in one or more chunks and closes   *)
(* it; there is no temporary file and no rename.  The process may crash    *)
(* between any two steps.                                                  *)

\* The file after the open: no bytes
FileEmpty == NotATable("empty")

\* The file after a first chunk: a proper prefix of the JSON text
FilePartial == NotATable("partial")

PersistInit ==
    /\ InitMerge
    /\ call \in {[fn |-> "writeTextFile",
                  input |-> [type |-> type, refs |-> modelRefs, before |-> tables[type]],
                  output |-> <<>>, done |-> FALSE, pc |-> "merge"] :
                    type \in Types, modelRefs \in RefLists}
    /\ GenIdle /\ PipeIdle /\ EntIdle /\ CacheIdle

\* Lines 801-873: the table is loaded or synthesized and merged in memory.
PrepareTable ==
    /\ call.pc = "merge"
    /\ LET res == updateItemDefinition(tables[call.input.type], call.input.type,
                                       call.input.refs)
       IN  call' = IF res.threw THEN [call EXCEPT !.pc = "threw", !.done = TRUE]
                   ELSE [call EXCEPT !.pc = "open", !.output = <<res.file>>]
    /\ UNCHANGED <<tables, cache, mergeVars, genVars, pipeVars, entVars>>

\* Deno.writeTextFile: open(filePath, { write, create, truncate })
OpenTruncate ==
    /\ call.pc = "open"
    /\ tables' = [tables EXCEPT ![call.input.type] = FileEmpty]
    /\ call' = [call EXCEPT !.pc = "write"]
    /\ UNCHANGED <<cache, mergeVars, genVars, pipeVars, entVars>>

\* A write that takes a part of the text
WriteChunk ==
    /\ call.pc = "write"
    /\ tables' = [tables EXCEPT ![call.input.type] = FilePartial]
    /\ call' = [call EXCEPT !.pc = "rest"]
    /\ UNCHANGED <<cache, mergeVars, genVars, pipeVars, entVars>>

\* The write that takes the rest of the text, and the close
WriteRest ==
    /\ call.pc \in {"write", "rest"}
    /\ tables' = [tables EXCEPT ![call.input.type] = call.output[1]]
    /\ call' = [call EXCEPT !.pc = "closed", !.done = TRUE]
    /\ UNCHANGED <<cache, mergeVars, genVars, pipeVars, entVars>>

\* The process ends while the call is in progress.
Crash ==
    /\ call.pc \in {"merge", "open", "write", "rest"}
    /\ call' = [call EXCEPT !.pc = "crashed"]
    /\ UNCHANGED <<tables, cache, mergeVars, genVars, pipeVars, entVars>>

NextPersist ==
    \/ PrepareTable
    \/ OpenTruncate
    \/ WriteChunk
    \/ WriteRest
    \/ Crash

SpecPersist == PersistInit /\ [][NextPersist]_vars

----------------------------------------------------------------------------
(* SpecCache: ensureVanillaAssets and downloadVanillaAssets on the cache   *)
(* directory ./minecraft, which holds the marker .version, the folder      *)
(* assets and, during a download, the folder __tmp.  A call is a sequence  *)
(* of awaited file and network operations; the process may exit, throw or  *)
(* crash between them, and a later process calls again, with the same or   *)
(* another configured version.                                             *)
(* marker: "none", "partial" (opened, not fully written) or a version.     *)
(* assets: NoAssets, or [of, all]: the version whose files were copied last*)
(* and whether every file of that version is there.                        *)

Versions == {"v1", "v2"}

Assets(version, all) == [of |-> version, all |-> all]

\* hasDirEntries(ASSETS_CACHE_DIR)
hasDirEntries(c) == c.dir /\ (c.marker # "none" \/ c.assets # NoAssets \/ c.tmp)

\* Lines 535-546
mustDownload(c, version) ==
    LET cacheExists == c.dir
        cacheHasEntries == IF cacheExists THEN hasDirEntries(c) ELSE FALSE
        versionMatches == cacheExists /\ cacheHasEntries /\ c.marker = version
    IN  ~cacheExists \/ ~cacheHasEntries \/ ~versionMatches

EnsureCall(version, n) ==
    [fn |-> "ensureVanillaAssets", input |-> version, output |-> <<>>, done |-> FALSE,
     pc |-> "check", n |-> n, checked |-> FALSE, seen |-> CacheAbsent,
     downloads |-> FALSE]

CacheInit ==
    /\ cache = CacheAbsent
    /\ call \in {EnsureCall(version, 1) : version \in Versions}
    /\ TablesIdle /\ MergeIdle /\ GenIdle /\ PipeIdle /\ EntIdle

CacheFrame == UNCHANGED <<tables, mergeVars, genVars, pipeVars, entVars>>

\* Lines 535-548: the cache is examined.
CheckCache ==
    /\ call.pc = "check"
    /\ LET need == mustDownload(cache, call.input)
       IN  call' = [call EXCEPT !.checked = TRUE, !.seen = cache, !.downloads = need,
                                !.pc = IF ~need THEN "done"
                                       ELSE IF cache.dir THEN "remove" ELSE "head",
                                !.done = ~need]
    /\ UNCHANGED cache
    /\ CacheFrame

\* Deno.remove(ASSETS_CACHE_DIR, { recursive: true }) deletes the entries of
\* the directory one by one, in the order the system lists them.
RemoveEntry ==
    /\ call.pc = "remove"
    /\ \/ cache.marker # "none" /\ cache' = [cache EXCEPT !.marker = "none"]
       \/ cache.tmp /\ cache' = [cache EXCEPT !.tmp = FALSE]
       \/ cache.assets.all /\ cache' = [cache EXCEPT !.assets.all = FALSE]
       \/ cache.assets # NoAssets /\ cache' = [cache EXCEPT !.assets = NoAssets]
    /\ UNCHANGED call
    /\ CacheFrame

\* The directory itself is removed once it is empty.
RemoveDone ==
    /\ call.pc = "remove"
    /\ ~hasDirEntries(cache)
    /\ cache' = CacheAbsent
    /\ call' = [call EXCEPT !.pc = "head"]
    /\ CacheFrame

\* The removal rejects (an entry cannot be deleted): .catch(() => undefined)
RemoveFails ==
    /\ call.pc = "remove"
    /\ call' = [call EXCEPT !.pc = "head"]
    /\ UNCHANGED cache
    /\ CacheFrame

\* Lines 570-581: the HEAD request and the download; a response that is
\* not ok ends the process, a rejected fetch rejects the call.
Fetch ==
    /\ call.pc \in {"head", "get"}
    /\ \E outcome \in {"ok", "notOk", "rejects"} :
          call' = [call EXCEPT
                     !.pc = CASE outcome = "ok" -> IF call.pc = "head" THEN "get" ELSE "tmp"
                              [] outcome = "notOk" -> "exited"
                              [] OTHER -> "threw",
                     !.done = outcome # "ok"]
    /\ UNCHANGED cache
    /\ CacheFrame

\* Lines 583-588: ensureDir(tempDir) and the archive written into it
MakeTemp ==
    /\ call.pc = "tmp"
    /\ cache' = [cache EXCEPT !.dir = TRUE, !.tmp = TRUE]
    /\ call' = [call EXCEPT !.pc = "unzip"]
    /\ CacheFrame

\* Lines 590-599: the archive is unpacked and its assets folder looked for.
Unzip ==
    /\ call.pc = "unzip"
    /\ \E outcome \in {"ok", "unzipFails", "noAssets"} :
          call' = [call EXCEPT
                     !.pc = CASE outcome = "ok" -> "copy"
                              [] outcome = "noAssets" -> "exited"
                              [] OTHER -> "threw",
                     !.done = outcome # "ok"]
    /\ UNCHANGED cache
    /\ CacheFrame

\* copy(assetsSrc, <cache>/assets, { overwrite: true }) has copied a part of
\* the files, over what the folder held.
CopySome ==
    /\ call.pc = "copy"
    /\ cache' = [cache EXCEPT !.assets = Assets(call.input, FALSE)]
    /\ call' = [call EXCEPT !.pc = "copying"]
    /\ CacheFrame

\* The copy has completed.
CopyRest ==
    /\ call.pc \in {"copy", "copying"}
    /\ cache' = [cache EXCEPT !.assets = Assets(call.input, TRUE)]
    /\ call' = [call EXCEPT !.pc = "marker"]
    /\ CacheFrame

\* Deno.writeTextFile(<cache>/.version, version): the open, then the text
WriteMarker ==
    /\ \/ call.pc = "marker"
          /\ cache' = [cache EXCEPT !.marker = "partial"]
          /\ call' = [call EXCEPT !.pc = "markerText"]
       \/ call.pc = "markerText"
          /\ cache' = [cache EXCEPT !.marker = call.input]
          /\ call' = [call EXCEPT !.pc = "cleanup"]
    /\ CacheFrame

\* Deno.remove(tempDir, { recursive: true }).catch(() => undefined)
Cleanup ==
    /\ call.pc = "cleanup"
    /\ \E removed \in BOOLEAN : cache' = [cache EXCEPT !.tmp = ~removed /\ cache.tmp]
    /\ call' = [call EXCEPT !.pc = "done", !.done = TRUE]
    /\ CacheFrame

\* The process ends while the call is in progress.
CacheCrash ==
    /\ ~call.done
    /\ call' = [call EXCEPT !.pc = "crashed", !.done = TRUE]
    /\ UNCHANGED cache
    /\ CacheFrame

\* The next call, by a later run or process, for the configured version
EnsureAgain ==
    /\ call.done
    /\ call.n < MaxEnsures
    /\ \E version \in Versions : call' = EnsureCall(version, call.n + 1)
    /\ UNCHANGED cache
    /\ CacheFrame

NextCache ==
    \/ CheckCache
    \/ RemoveEntry
    \/ RemoveDone
    \/ RemoveFails
    \/ Fetch
    \/ MakeTemp
    \/ Unzip
    \/ CopySome
    \/ CopyRest
    \/ WriteMarker
    \/ Cleanup
    \/ CacheCrash
    \/ EnsureAgain

SpecCache == CacheInit /\ [][NextCache]_vars

----------------------------------------------------------------------------
(* SpecEntity: one run of the entity model generator                       *)
(* (src/generators/internal/entityModel.ts).  The per-definition tasks are *)
(* async functions: each runs until it awaits, and the reads and writes it *)
(* awaits settle in any order.  The content of a properties file is the    *)
(* sequence of its sections; a section is [index, by], by naming the       *)
(* definition it was generated for (0 for a section found on disk).  The   *)
(* writes of the .jem files and the copies succeed.                        *)

EntityDefaultLoadPriority == 5

NoEntity == [id |-> 0, models |-> <<>>, types |-> <<>>, type |-> <<>>, loadPriority |-> <<>>]

EntPool ==
    { [NoEntity EXCEPT !.id = 1, !.type = <<"cow">>],
      [NoEntity EXCEPT !.id = 2, !.type = <<"cow">>],
      [NoEntity EXCEPT !.id = 3, !.types = << <<"pig", "cow">> >>],
      [NoEntity EXCEPT !.id = 4],
      [NoEntity EXCEPT !.id = 5, !.type = <<"pig">>, !.loadPriority = <<1>>],
      [NoEntity EXCEPT !.id = 6, !.types = << <<"pig", "cow">> >>, !.loadPriority = <<1>>] }

EntWorklists == {q \in SeqsUpTo(EntPool, MaxEntDefs) :
                    \A i, j \in 1..Len(q) : i # j => q[i] # q[j]}

\* A properties file found on disk, with one section models.3=3
ExistingProperties == <<[index |-> 3, by |-> 0]>>

getEntityTypes(data) ==
    IF data.models # <<>> THEN data.models[1]
    ELSE IF data.types # <<>> THEN data.types[1]
    ELSE IF data.type # <<>> THEN <<data.type[1]>>
    ELSE <<>>

\* a.data.loadPriority ?? 5
entityPriority(data) ==
    IF data.loadPriority # <<>> THEN data.loadPriority[1] ELSE EntityDefaultLoadPriority

insertEntity(sorted, d) ==
    LET k == Cardinality({i \in 1..Len(sorted) :
                             entityPriority(sorted[i]) - entityPriority(d) <= 0})
    IN  SubSeq(sorted, 1, k) \o <<d>> \o SubSeq(sorted, k + 1, Len(sorted))

RECURSIVE sortEntitiesFrom(_, _, _)
sortEntitiesFrom(sorted, work, i) ==
    IF i > Len(work) THEN sorted
    ELSE sortEntitiesFrom(insertEntity(sorted, work[i]), work, i + 1)

\* modelsToProcess.sort(...): stable, by loadPriority
sortEntities(work) == sortEntitiesFrom(<<>>, work, 1)

\* The value getNextIndex computes from a content: the greatest N of the
\* "models.N=" lines, 1 when there is none
nextIndexOf(content) ==
    IF Len(content) > 0
    THEN CHOOSE n \in {content[i].index : i \in 1..Len(content)} :
             \A i \in 1..Len(content) : content[i].index <= n
    ELSE 1

NewTask == [pc |-> "new", value |-> 0, got |-> <<>>]

\* const iStr = (++indexTracker[type]).toString(); the section is appended
\* to propertiesCache[type]; the task then awaits the write of the .jem file.
takeIndex(st, work, i, type) ==
    LET n == st.tracker[type][1] + 1
        content == IF st.cache[type] # <<>> THEN st.cache[type][1] ELSE <<>>
    IN  [task |-> [st.task EXCEPT ![i].pc = "writing", ![i].got = Append(@, n)],
         tracker |-> [st.tracker EXCEPT ![type] = <<n>>],
         cache |-> [st.cache EXCEPT
                       ![type] = <<Append(content, [index |-> n, by |-> work[i].id])>>]]

\* Task i goes on to its next type, up to the next await: the task ends
\* (no type left, or no type at all: the error is caught and logged), it
\* calls getNextIndex when the type is not in indexTracker, or it takes the
\* next index.
beginType(st, work, i) ==
    LET types == getEntityTypes(work[i])
        k == Len(st.task[i].got) + 1
    IN  IF k > Len(types)
        THEN [st EXCEPT !.task[i].pc = "over"]
        ELSE IF st.tracker[types[k]] = <<>>
             THEN IF st.cache[types[k]] = <<>>
                  THEN [st EXCEPT !.task[i].pc = "reading"]
                  ELSE [st EXCEPT !.task[i].pc = "assign",
                                  !.task[i].value = nextIndexOf(st.cache[types[k]][1])]
             ELSE takeIndex(st, work, i, types[k])

RECURSIVE beginAll(_, _, _)
beginAll(st, work, i) ==
    IF i > Len(work) THEN st ELSE beginAll(beginType(st, work, i), work, i + 1)

CurrentType(i) == getEntityTypes(entWork[i])[Len(entTask[i].got) + 1]

EntState == [task |-> entTask, tracker |-> indexTracker, cache |-> propertiesCache]

SetEntState(st) ==
    /\ entTask' = st.task
    /\ indexTracker' = st.tracker
    /\ propertiesCache' = st.cache

InitEntity ==
    /\ entWork \in EntWorklists
    /\ entTask = [i \in 1..Len(entWork) |-> NewTask]
    /\ indexTracker = [t \in EntityTypes |-> <<>>]
    /\ propertiesCache = [t \in EntityTypes |-> <<>>]
    /\ entStartFiles \in [EntityTypes -> {<<>>, <<ExistingProperties>>}]
    /\ entFiles = entStartFiles
    /\ entPc = "start"

\* entityModel.ts:44-82: an empty worklist returns; otherwise the worklist
\* is sorted and map() enters every task in turn, each up to its first await.
EntStart ==
    /\ entPc = "start"
    /\ IF Len(entWork) = 0
       THEN /\ entPc' = "done"
            /\ UNCHANGED <<entWork, entTask, indexTracker, propertiesCache>>
       ELSE /\ entWork' = sortEntities(entWork)
            /\ SetEntState(beginAll(EntState, sortEntities(entWork), 1))
            /\ entPc' = "tasks"
    /\ UNCHANGED <<entFiles, entStartFiles>>
    /\ UNCHANGED <<tables, mergeVars, genVars, pipeVars, fnVars>>

\* getNextIndex after its await: the read has settled (a missing file gives
\* ""), the content is stored in the cache and the index is computed.
ReadDone(i) ==
    /\ entPc = "tasks"
    /\ i \in 1..Len(entWork)
    /\ entTask[i].pc = "reading"
    /\ LET type == CurrentType(i)
           content == IF entFiles[type] # <<>> THEN entFiles[type][1] ELSE <<>>
       IN  /\ propertiesCache' = [propertiesCache EXCEPT ![type] = <<content>>]
           /\ entTask' = [entTask EXCEPT ![i].pc = "assign",
                                         ![i].value = nextIndexOf(content)]
    /\ UNCHANGED <<entWork, indexTracker, entFiles, entStartFiles, entPc>>
    /\ UNCHANGED <<tables, mergeVars, genVars, pipeVars, fnVars>>

\* indexTracker[type] = <the awaited value>, and the rest of the loop body
\* up to the write of the model file.
AssignIndex(i) ==
    /\ entPc = "tasks"
    /\ i \in 1..Len(entWork)
    /\ entTask[i].pc = "assign"
    /\ LET type == CurrentType(i)
       IN  SetEntState(takeIndex([EntState EXCEPT !.tracker[type] = <<entTask[i].value>>],
                                 entWork, i, type))
    /\ UNCHANGED <<entWork, entFiles, entStartFiles, entPc>>
    /\ UNCHANGED <<tables, mergeVars, genVars, pipeVars, fnVars>>

\* The write or the copies of the model have settled; the loop goes on.
WriteDone(i) ==
    /\ entPc = "tasks"
    /\ i \in 1..Len(entWork)
    /\ entTask[i].pc = "writing"
    /\ SetEntState(beginType(EntState, entWork, i))
    /\ UNCHANGED <<entWork, entFiles, entStartFiles, entPc>>
    /\ UNCHANGED <<tables, mergeVars, genVars, pipeVars, fnVars>>

\* await Promise.all(tasks), then every cached content is written to its
\* <type>.properties.
WriteProperties ==
    /\ entPc = "tasks"
    /\ \A i \in 1..Len(entWork) : entTask[i].pc = "over"
    /\ entFiles' = [t \in EntityTypes |->
                       IF propertiesCache[t] # <<>> THEN propertiesCache[t] ELSE entFiles[t]]
    /\ entPc' = "done"
    /\ UNCHANGED <<entWork, entTask, indexTracker, propertiesCache, entStartFiles>>
    /\ UNCHANGED <<tables, mergeVars, genVars, pipeVars, fnVars>>

NextEntity ==
    \/ EntStart
    \/ \E i \in 1..MaxEntDefs : ReadDone(i) \/ AssignIndex(i) \/ WriteDone(i)
    \/ WriteProperties

EntityInit == InitEntity /\ TablesIdle /\ MergeIdle /\ GenIdle /\ PipeIdle /\ FnIdle

SpecEntity == EntityInit /\ [][NextEntity]_vars

----------------------------------------------------------------------------
(* Properties of the merge engine (SpecMerge) *)

Distinct(entries) ==
    \A i, j \in 1..Len(entries) : i # j => entries[i].threshold # entries[j].threshold

\* The entries a merge keeps from the file it loaded.
retained(file, type) ==
    LET data == loadTable(file, type)
    IN  popFallback(IF data.entriesIsArray THEN data.entries ELSE NoEntries)

Persisted == nMerges > 0 /\ ~last.threw

ThresholdOf(ref) == generateUniqueThreshold(ModelId(ref))

\* C5: every table in the items folder, in particular every table persisted
\* by updateItemDefinition, has pairwise distinct thresholds over all its
\* entries (pre-existing, new model entries, fallback echoes).
C5_UniqueThresholds ==
    \A t \in Types : tables[t].kind = "table" => Distinct(tables[t].entries)

\* A persisted table holding a pre-existing entry, a new model entry and a
\* fallback echo, written by a merge that also skipped a reference.
C5_Witness ==
    /\ Persisted
    /\ Len(retained(last.before, last.type)) > 0
    /\ Len(last.thresholds) > 0
    /\ Len(last.thresholds) < Len(last.refs)
    /\ \E i \in 1..Len(last.after.entries) :
          /\ i > Len(retained(last.before, last.type))
          /\ last.after.entries[i].model = fallbackDefinition(last.type)

\* C6: after every merge that persists a table, the final entry of the table
\* is a fallback echo.
C6_FinalEntryIsFallbackEcho ==
    Persisted =>
        /\ Len(last.after.entries) > 0
        /\ last.after.entries[Len(last.after.entries)].model
               \in {fallbackDefinition(last.type), last.after.fallback}

\* C7: merging the same reference list into the table a second time yields
\* the table the first merge produced.
C7_MergeIdempotent ==
    (/\ nMerges >= 2
     /\ last.type = prev.type
     /\ last.refs = prev.refs
     /\ ~prev.threw
     /\ ~last.threw) => last.after = prev.after

Assigned == Range(last.thresholds) \cup Range(prev.thresholds)

\* C9: two references with the same "<folder>/<id>" get the same threshold,
\* whatever the type, the position in the list, the existing table or the
\* merge that computes it.
C9_ThresholdDependsOnIdOnly ==
    \A a, b \in Assigned : ModelId(a) = ModelId(b) => a.threshold = b.threshold

\* The same reference placed by two merges of different types, at different
\* positions of their lists, into different existing tables.
C9_Witness ==
    /\ nMerges >= 2
    /\ last.type # prev.type
    /\ last.before # prev.before
    /\ \E i \in 1..Len(last.thresholds), j \in 1..Len(prev.thresholds) :
          /\ i # j
          /\ ModelId(last.thresholds[i]) = ModelId(prev.thresholds[j])

Colliding(refs) ==
    {p \in (1..Len(refs)) \X (1..Len(refs)) :
        p[1] < p[2] /\ ThresholdOf(refs[p[1]]) = ThresholdOf(refs[p[2]])}

Recorded(ref) ==
    \E k \in 1..Len(last.thresholds) :
        /\ last.thresholds[k].folder = ref.folder
        /\ last.thresholds[k].id = ref.id

Unhindered(i) ==
    LET t == ThresholdOf(last.refs[i])
    IN  /\ t \notin takenOf(retained(last.before, last.type))
        /\ \A k \in 1..(i - 1) :
              /\ ThresholdOf(last.refs[k]) # t
              /\ ThresholdOf(last.refs[k]) + 1 # t

NonTrailing(file) ==
    IF file.entriesIsArray /\ Len(file.entries) > 0
    THEN SubSeq(file.entries, 1, Len(file.entries) - 1)
    ELSE <<>>

\* C18: a merge into an existing file that passes the validity check keeps
\* the file's entries other than the trailing one, unchanged and in their
\* order, at the head of the table, and keeps the fallback and the other root
\* fields.
C18_MergeKeepsExistingTable ==
    (Persisted /\ last.before.kind = "table") =>
        /\ Len(NonTrailing(last.before)) <= Len(last.after.entries)
        /\ SubSeq(last.after.entries, 1, Len(NonTrailing(last.before)))
               = NonTrailing(last.before)
        /\ last.after.fallback = last.before.fallback
        /\ last.after.root = last.before.root

\* A merge that added entries to a hand-written table with a non-trailing
\* entry.
C18_Witness ==
    /\ Persisted
    /\ last.before.kind = "table"
    /\ last.before.root # DispatchRoot
    /\ Len(NonTrailing(last.before)) > 0
    /\ Len(last.thresholds) > 0

\* The thresholds in use when the k-th recorded reference of the last merge
\* has been inserted: those kept from the file, those of the earlier
\* recorded references and the ones above them, and its own.
InUseAt(k) ==
    {NonTrailing(last.before)[i].threshold : i \in 1..Len(NonTrailing(last.before))}
        \cup UNION {{last.thresholds[j].threshold, last.thresholds[j].threshold + 1} :
                       j \in 1..(k - 1)}
        \cup {last.thresholds[k].threshold}

\* Position of the model entry of the k-th recorded reference
EntryOf(k) ==
    CHOOSE p \in (Len(NonTrailing(last.before)) + 1)..Len(last.after.entries) :
        /\ last.after.entries[p].threshold = last.thresholds[k].threshold
        /\ last.after.entries[p].model # fallbackDefinition(last.type)

EchoFollows(k) ==
    /\ EntryOf(k) + 1 <= Len(last.after.entries)
    /\ last.after.entries[EntryOf(k) + 1]
          = [threshold |-> last.thresholds[k].threshold + 1,
             model |-> fallbackDefinition(last.type)]

\* C19: the model entry at threshold t is followed by an entry at t + 1 with
\* the type's fallback model exactly when t + 1 was not in use at that moment,
\* and no entry inserted later in the merge has threshold t + 1.
C19_EchoIffNextThresholdFree ==
    Persisted =>
        \A k \in 1..Len(last.thresholds) :
            /\ EchoFollows(k) <=> (last.thresholds[k].threshold + 1 \notin InUseAt(k))
            /\ \A q \in (EntryOf(k) + 1)..Len(last.after.entries) :
                  last.after.entries[q].threshold = last.thresholds[k].threshold + 1
                      => (q = EntryOf(k) + 1 /\ EchoFollows(k))

\* A merge that inserted one reference with its echo and one without,
\* the threshold above it being in use.
C19_Witness ==
    /\ Persisted
    /\ \E k \in 1..Len(last.thresholds) : EchoFollows(k)
    /\ \E k \in 1..Len(last.thresholds) :
          ~EchoFollows(k) /\ last.thresholds[k].threshold + 1 \in InUseAt(k)

\* C20: every table a merge has persisted has the root selector
\* range_dispatch on custom_model_data, a fallback model and an entries list.
C20_PersistedTableIsRangeDispatch ==
    Persisted =>
        /\ last.after.root.type = "range_dispatch"
        /\ last.after.root.property = <<"custom_model_data">>
        /\ last.after.fallback # NoFallback
        /\ last.after.entriesIsArray

\* The thresholds of the entries the file held before the merge
ExistingThresholds(file) ==
    IF file.entriesIsArray
    THEN {file.entries[i].threshold : i \in 1..Len(file.entries)}
    ELSE {}

\* C22: a reference of the merged list has no entry only if its threshold is
\* that of an entry the file held or that of the model entry of an earlier
\* reference of the list; the slot of an earlier fallback echo never leaves
\* a reference without entry.
C22_SkippedOnlyOnModelCollision ==
    Persisted =>
        \A k \in 1..Len(last.refs) :
            ~Recorded(last.refs[k]) =>
                \/ ThresholdOf(last.refs[k]) \in ExistingThresholds(last.before)
                \/ \E j \in 1..(k - 1) :
                      /\ Recorded(last.refs[j])
                      /\ ThresholdOf(last.refs[j]) = ThresholdOf(last.refs[k])

\* C23: every fallback echo a merge inserts carries the fallback model
\* stored in the root of the table it is inserted into, also when the table
\* was loaded from a file with its own fallback.
C23_EchoCarriesTableFallback ==
    Persisted =>
        \A k \in 1..Len(last.thresholds) :
            EchoFollows(k) =>
                last.after.entries[EntryOf(k) + 1].model = last.after.fallback

----------------------------------------------------------------------------
(* Properties of the item generator's fan-out (SpecGen) *)

\* The pushes of task d when it runs alone, applied to m.
RECURSIVE resolveAlone(_, _, _)
resolveAlone(m, d, k) ==
    LET itemTypes == getItemTypes(d.data)
    IN  IF k > Len(itemTypes) \/ resolveOneType(d, itemTypes[k]).threw THEN m
        ELSE LET res == resolveOneType(d, itemTypes[k])
             IN  resolveAlone(pushModel(m, itemTypes[k],
                                        [folder |-> res.folder, id |-> res.id]),
                              d, k + 1)

\* modelsAddedByType when the tasks complete one after the other in
\* worklist order.
RECURSIVE resolveInOrder(_, _, _)
resolveInOrder(m, list, i) ==
    IF i > Len(list) THEN m
    ELSE resolveInOrder(resolveAlone(m, list[i], 1), list, i + 1)

InOrderTable(type) ==
    LET refs == resolveInOrder(NoModels, worklist, 1).refs[type]
    IN  IF refs = <<>> THEN startTables[type]
        ELSE updateItemDefinition(startTables[type], type, refs).file

\* C8: for a fixed worklist and fixed initial tables the persisted tables do
\* not depend on the order in which the resolution tasks complete: every run
\* ends with the tables of the run whose tasks complete in worklist order.
C8_TablesIndependentOfCompletionOrder ==
    genPc = "done" => \A type \in Types : tables[type] = InOrderTable(type)

TasksJoined == genPc \in {"merge", "failed", "done"}

\* Task i ended in its catch block.
Failed(i) ==
    /\ taskPos[i].over
    /\ taskPos[i].done < Len(getItemTypes(worklist[i].data))
          \/ Len(getItemTypes(worklist[i].data)) = 0

\* The reference definition i yields for its type number k.
RefOfType(i, k) ==
    LET res == resolveOneType(worklist[i], getItemTypes(worklist[i].data)[k])
    IN  [folder |-> res.folder, id |-> res.id]

\* C12: once the tasks have joined, a definition whose processing failed has
\* no reference under any type, also not under the types handled before the
\* failing one, and every reference of every other definition is recorded.
C12_FailedDefinitionContributesNothing ==
    TasksJoined =>
        \A i \in 1..Len(worklist) :
            LET itemTypes == getItemTypes(worklist[i].data)
            IN  IF Failed(i)
                THEN \A k \in 1..taskPos[i].done :
                        RefOfType(i, k) \notin Range(modelsAddedByType.refs[itemTypes[k]])
                ELSE \A k \in 1..Len(itemTypes) :
                        RefOfType(i, k) \in Range(modelsAddedByType.refs[itemTypes[k]])

\* C14: the merge tasks of one run target pairwise different table files.
C14_OneMergeTaskPerTable ==
    TasksJoined =>
        \A i, j \in 1..Len(typeList(modelsAddedByType)) :
            i # j => tablePath(typeList(modelsAddedByType)[i])
                        # tablePath(typeList(modelsAddedByType)[j])

\* Two merge tasks are pending at once, after a type was pushed to twice.
C14_Witness ==
    /\ genPc = "merge"
    /\ merged = {}
    /\ Len(typeList(modelsAddedByType)) = 2
    /\ \E type \in Types : Len(modelsAddedByType.refs[type]) >= 2

\* C21: every merge task that has run has persisted its type's table,
\* whatever the file held before, and the run's merge stage has not failed.
C21_EveryMergeTaskPersists ==
    /\ genPc # "failed"
    /\ \A j \in merged :
          tables[typeList(modelsAddedByType)[j]].kind = "table"

\* The "<folder>/<id>" of the model files the resolve tasks have written
WrittenModels ==
    {ModelId(resolveOneType(worklist[p[1]], getItemTypes(worklist[p[1]].data)[p[2]])) :
        p \in {q \in (1..Len(worklist)) \X (1..Cardinality(Types)) :
                  /\ q[2] <= taskPos[q[1]].done
                  /\ resolveOneType(worklist[q[1]],
                                    getItemTypes(worklist[q[1]].data)[q[2]]).wrote}}

\* The entries a merge of the run has added to the table of `type`
AddedEntries(type) ==
    {tables[type].entries[i] : i \in 1..Len(tables[type].entries)}
        \ {startTables[type].entries[i] : i \in 1..Len(startTables[type].entries)}

\* C27: every model entry a merge has added names a model file the resolve
\* tasks of the run have written.
C27_EntriesNameWrittenModels ==
    \A j \in merged :
        \A e \in AddedEntries(typeList(modelsAddedByType)[j]) :
            e.model.model[1] = "supermodel:item/" => e.model.model[2] \in WrittenModels

\* C28: when a merge task has run, every resolution task has completed (with
\* its references or in its catch block), every reference the tasks pushed
\* is in the list of its type, and the merged table is the merge of that
\* complete list into the table the run found.
C28_MergesAfterAllResolutions ==
    merged # {} =>
        /\ \A i \in 1..Len(worklist) :
              /\ taskPos[i].over
              /\ \A k \in 1..taskPos[i].done :
                    RefOfType(i, k) \in
                        Range(modelsAddedByType.refs[getItemTypes(worklist[i].data)[k]])
        /\ \A j \in merged :
              LET type == typeList(modelsAddedByType)[j]
              IN  tables[type] =
                    updateItemDefinition(startTables[type], type,
                                         modelsAddedByType.refs[type]).file

\* A merge has run on a list holding the references of two tasks, after
\* another task ended in its catch block.
C28_Witness ==
    /\ merged # {}
    /\ \E i \in 1..Len(worklist) : Failed(i)
    /\ \E j \in merged :
          \E a, b \in 1..Len(worklist) :
              /\ a # b
              /\ taskPos[a].done >= 1
              /\ taskPos[b].done >= 1
              /\ getItemTypes(worklist[a].data)[1] = typeList(modelsAddedByType)[j]
              /\ getItemTypes(worklist[b].data)[1] = typeList(modelsAddedByType)[j]

\* The files of the traversal that are read and parsed, in its order
ParsedFiles == SelectSeq(diskFiles, LAMBDA f : f.content = "json")

\* C29: the worklist is every queued definition in add order, followed by
\* every definition read from disk in traversal order; a file that cannot
\* be read or parsed is left out and the others keep their places.
C29_WorklistIsQueueThenDisk ==
    genPc # "read" =>
        /\ Len(worklist) = Len(queued) + Len(ParsedFiles)
        /\ \A i \in 1..Len(queued) :
              /\ worklist[i].data = queued[i]
              /\ ~worklist[i].isFromFile
        /\ \A i \in 1..Len(ParsedFiles) :
              /\ worklist[Len(queued) + i].data = ParsedFiles[i].data
              /\ worklist[Len(queued) + i].isFromFile
              /\ worklist[Len(queued) + i].filePath = ParsedFiles[i].path

\* A worklist built from a queued definition and a traversal with a failing
\* file between two definitions.
C29_Witness ==
    /\ genPc # "read"
    /\ Len(queued) = 1
    /\ Len(diskFiles) = 3
    /\ diskFiles[1].content = "json"
    /\ diskFiles[2].content # "json"
    /\ diskFiles[3].content = "json"
    /\ Len(worklist) = 3

\* A texture of definition i cannot be copied from the definition's folder.
TextureMissing(i) ==
    /\ worklist[i].isFromFile
    /\ \E t \in Range(gatherTextureMap(worklist[i].data).map) :
          (IF hasExtname(t.file) THEN t.file ELSE t.file \o dotPng)
              \notin worklist[i].present

\* The model of definition i for `type` can be built: there is a texture
\* for a generated model, a name and data in an inline model, a readable
\* file for a named one.
ModelAvailable(i, type) ==
    LET m == resolveModelForType(worklist[i].data, type)
    IN  CASE m.kind = "undefined" -> gatherTextureMap(worklist[i].data).map # <<>>
          [] m.kind = "object" -> m.hasData /\ m.name # <<>> /\ m.name # << <<>> >>
          [] OTHER -> /\ worklist[i].isFromFile
                      /\ (IF hasExtname(m.file) THEN m.file ELSE m.file \o dotJson)
                            \in worklist[i].present

\* C37: when the tasks have joined, a definition with a texture that could
\* not be copied has the failure logged, and for each of its types whose
\* model can be built the model file is written and the reference is in
\* the list handed to the merge.
C37_TextureCopyFailureNotFatal ==
    TasksJoined =>
        \A i \in 1..Len(worklist) :
            TextureMissing(i) =>
                LET itemTypes == getItemTypes(worklist[i].data)
                IN  \A k \in 1..Len(itemTypes) :
                        (\A n \in 1..k : ModelAvailable(i, itemTypes[n])) =>
                            /\ taskPos[i].done >= k
                            /\ RefOfType(i, k) \in Range(modelsAddedByType.refs[itemTypes[k]])
                            /\ resolveOneType(worklist[i], itemTypes[k]).wrote
                            /\ resolveOneType(worklist[i], itemTypes[k]).logged

\* The tasks have joined and the reference of a definition with a missing
\* texture has been merged into its table.
C37_Witness ==
    /\ genPc = "done"
    /\ \E i \in 1..Len(worklist) :
          /\ TextureMissing(i)
          /\ taskPos[i].done = 1
          /\ \E e \in AddedEntries(getItemTypes(worklist[i].data)[1]) :
                e.model.model[2] = ModelId(RefOfType(i, 1))

----------------------------------------------------------------------------
(* Properties of the entity generator (SpecEntity) *)

\* The (task, position) pairs that have taken an index
Taken == {p \in (1..Len(entWork)) \X (1..Cardinality(EntityTypes)) :
             p[2] <= Len(entTask[p[1]].got)}

TypeOfTaken(p) == getEntityTypes(entWork[p[1]])[p[2]]

IndexOfTaken(p) == entTask[p[1]].got[p[2]]

StartIndices(type) ==
    IF entStartFiles[type] = <<>> THEN {}
    ELSE {entStartFiles[type][1][i].index : i \in 1..Len(entStartFiles[type][1])}

\* C24: the indices taken for one entity type in a run are pairwise distinct
\* and greater than every index of the type's existing properties file.
C24_VariantIndicesDistinct ==
    \A p, q \in Taken :
        /\ (p # q /\ TypeOfTaken(p) = TypeOfTaken(q)) => IndexOfTaken(p) # IndexOfTaken(q)
        /\ \A n \in StartIndices(TypeOfTaken(p)) : IndexOfTaken(p) > n

\* C25: when the run has written the properties files, the file of a type
\* holds the content it had before, followed by sections among which is the
\* section of every definition handled for that type.
C25_NoSectionLost ==
    entPc = "done" =>
        /\ \A p \in Taken :
              /\ entFiles[TypeOfTaken(p)] # <<>>
              /\ \E i \in 1..Len(entFiles[TypeOfTaken(p)][1]) :
                    entFiles[TypeOfTaken(p)][1][i]
                        = [index |-> IndexOfTaken(p), by |-> entWork[p[1]].id]
        /\ \A t \in EntityTypes :
              (entStartFiles[t] # <<>> /\ entFiles[t] # <<>>) =>
                  SubSeq(entFiles[t][1], 1, Len(entStartFiles[t][1])) = entStartFiles[t][1]

\* C36: of two indices taken for one entity type, the one of the definition
\* with the lower loadPriority (5 when it declares none) is the smaller.
C36_LowerPriorityGetsSmallerIndex ==
    \A p, q \in Taken :
        (/\ TypeOfTaken(p) = TypeOfTaken(q)
         /\ entityPriority(entWork[p[1]]) < entityPriority(entWork[q[1]]))
            => IndexOfTaken(p) < IndexOfTaken(q)

----------------------------------------------------------------------------
(* Properties of the orchestrator (Spec) *)

RunIds == 1..MaxRuns

\* The priority the documentation gives a module: loadPriority, or 1.
StatedPriority(idx) ==
    IF discovered[idx].hasPriority THEN discovered[idx].loadPriority ELSE 1

Sorted(r) == runs[r].pc \in {"exec", "done", "rejected"}

IsPrefix(p, q) == Len(p) <= Len(q) /\ p = SubSeq(q, 1, Len(p))

Ended(r) == runs[r].pc \in {"done", "rejected"}

\* C2: a generator that throws does not stop the run; every generator
\* collected for the run has been invoked when the run ends.
C2_ThrowDoesNotStopLaterGenerators ==
    \A r \in RunIds : Ended(r) => Len(runs[r].started) = Len(runs[r].generators)

Loadable == {i \in 1..Len(discovered) : discovered[i].load = "ok"}

\* C3: a module whose import throws or which has no default function is
\* left out of the run, and the other modules are all collected, ordered and
\* invoked: the sorted list is exactly the loadable modules, invocation
\* follows that list, no other module is ever invoked, and a run that has
\* ended after leaving a module out has invoked every loadable one.
C3_LoadFailureExcludesOnlyThatModule ==
    \A r \in RunIds :
        /\ Range(runs[r].started) \cap runs[r].excluded = {}
        /\ Range(runs[r].started) \subseteq Loadable
        /\ Sorted(r) =>
              /\ IsPrefix(runs[r].started, runs[r].generators)
              /\ Range(runs[r].generators) = Loadable
              /\ Len(runs[r].generators) = Cardinality(Loadable)
              /\ runs[r].excluded = (1..Len(discovered)) \ Loadable
        /\ (Ended(r) /\ runs[r].excluded # {}) => Range(runs[r].started) = Loadable

Queued(r) == {d \in Range(modelQueue) : d.run = r}

\* C4: the queue is empty when a run starts; a run whose item generator
\* found definitions in the queue has cleared the queue exactly once when it
\* ends, whatever the outcome of the fetch and of the merges, and leaves
\* none of its definitions queued; no queued definition is emitted by two
\* runs.
C4_QueueClearedEveryRun ==
    \A r \in RunIds :
        /\ runs[r].pc # "idle" => runs[r].startQueue = <<>>
        /\ (Ended(r) /\ \E d \in Range(runs[r].itemWork) : d.run # 0) =>
              runs[r].clears = 1 /\ Queued(r) = {}
        /\ \A q \in RunIds :
              q # r => \A d \in runs[r].emitted \cap runs[q].emitted : d.run = 0

\* The item generator of run r has read the queue
HasRead(r) == runs[r].gpc \in {"item_vanilla", "item_merge", "item_clear"}
                 \/ \E g \in Range(runs[r].started) :
                       discovered[g].kind = "item" /\ g \notin runs[r].active

\* C15: a run adds to the queue only before its item generator reads the
\* queue, and a definition leaves the queue only when the run that added it
\* has resolved it.
C15_AddsPrecedeReadAndClear ==
    [][\A r \in RunIds :
          /\ (\E d \in Range(modelQueue') \ Range(modelQueue) : d.run = r) => ~HasRead(r)
          /\ \A d \in Range(modelQueue) \ Range(modelQueue') :
                d.run = r => d \in runs'[r].emitted]_vars

\* C16: when the reference dataset cannot be obtained for a non-empty
\* worklist, the process is terminated and the run has resolved no
\* definition and merged no table.
C16_VanillaFailureTerminatesFirst ==
    \A r \in RunIds :
        runs[r].vanilla \in VanillaFailures =>
            /\ runs[r].itemWork # <<>>
            /\ process \in {"exited", "crashed"}
            /\ runs[r].emitted = {}
            /\ runs[r].clears = 0

C16_Witness ==
    \E r \in RunIds :
        /\ runs[r].vanilla = "unzipFails"
        /\ runs[r].itemWork # <<>>
        /\ process = "crashed"

\* buildPack call r has been entered and has neither returned nor rejected
InProgress(r) == runs[r].pc \in {"collect", "exec"}

\* C26: at most one buildPack call is in progress at any time.
C26_OneRunAtATime ==
    \A r, q \in RunIds : (InProgress(r) /\ InProgress(q)) => r = q

----------------------------------------------------------------------------
(* Properties of the threshold function (SpecHash) *)

\* (charCode + 31 * h) wrapped to a signed 32-bit integer; wrapping after the
\* shift, the subtraction and the addition gives the same value modulo 2^32
wrappedStep(h, c) ==
    LET lo  == (h.lo * 31) + c
        hiU == ((h.hi * 31) + (lo \div W16)) % W16
    IN  [hi |-> IF hiU >= 2^15 THEN hiU - W16 ELSE hiU, lo |-> lo % W16]

wrappedHashes(str) ==
    LET hs[i \in 0..Len(str)] == IF i = 0 THEN Zero ELSE wrappedStep(hs[i - 1], str[i])
    IN  hs[Len(str)]

ReferenceThreshold(str) ==
    LET h == wrappedHashes(str)
    IN  32767 + ModBig(Abs(h), 10000000)

\* C17: the threshold of a string is 32767 + (|h| mod 10,000,000) with h the
\* 32-bit wrapped hash h := charCode + 31*h, for every string.
C17_WrappedHashThreshold ==
    call.done => call.output = <<ReferenceThreshold(call.input)>>

----------------------------------------------------------------------------
(* Properties of the template substitution (SpecSubst) *)

\* The tree with every string value that is wholly a token replaced by the
\* token's value, keys and all other strings kept
RECURSIVE substituteTree(_, _)
substituteTree(node, replacements) ==
    IF node.kind = "str"
    THEN IF \E n \in 1..Len(replacements) : replacements[n].key = node.chars
         THEN replacements[CHOOSE n \in 1..Len(replacements) :
                               replacements[n].key = node.chars].val
         ELSE node
    ELSE Obj([n \in 1..Len(node.members) |->
                 Member(node.members[n].key,
                        substituteTree(node.members[n].value, replacements))])

\* C13: the substituted definition is the template with exactly the string
\* values that are wholly a token replaced by the resolved value; keys, other
\* strings and the structure are those of the template, for any resolved values.
C13_SubstitutionReplacesWholeTokenValues ==
    call.done =>
        call.output = <<[threw |-> FALSE,
                         value |-> substituteTree(call.input.definition,
                                                  call.input.replacements)]>>

----------------------------------------------------------------------------
(* Properties of the type list (SpecTypes) *)

\* The first of the model map's keys, the type list and the single type
\* that yields a type.
DeclaredTypes(data) ==
    LET keys == IF data.models = <<>> THEN <<>>
                ELSE [i \in 1..Len(data.models[1]) |-> data.models[1][i].key]
        list == IF data.types = <<>> THEN <<>> ELSE data.types[1]
        single == IF data.type = <<>> \/ data.type[1] = <<>> THEN <<>>
                  ELSE <<data.type[1]>>
    IN  IF keys # <<>> THEN keys ELSE IF list # <<>> THEN list ELSE single

\* C30: the type list of a definition is the key set of its model map if
\* that has a key, else its type list if that has a type, else its single
\* type, and the definition fails with the no-type error exactly when none
\* of the three has a type.
C30_FirstSourceThatYieldsAType ==
    call.done =>
        /\ call.output[1].threw <=> DeclaredTypes(call.input) = <<>>
        /\ ~call.output[1].threw =>
              call.output[1].itemTypes = DeclaredTypes(call.input)

----------------------------------------------------------------------------
(* Properties of the texture alignment (SpecAlign) *)

\* The texture map came from the single texture name of the definition.
FromSingleName(data) ==
    /\ data.textures = <<>>
    /\ data.texture # <<>>
    /\ data.texture[1] # <<>>

KeysOf(map) == [i \in 1..Len(map) |-> map[i].key]

\* C31: the aligned map has the model's key in place of the supplied
\* texture's key when the map came from a single texture name and the model
\* declares exactly one texture key; otherwise its keys are those of the
\* gathered map.  The files are the gathered ones in both cases.
C31_KeyAdoptedOnlyFromOneKeyModel ==
    call.done =>
        LET data == call.input.data
            declared == call.input.modelTextures
            gathered == gatherTextureMap(data).map
            aligned == call.output[1]
        IN  /\ Len(aligned) = Len(gathered)
            /\ \A i \in 1..Len(aligned) : aligned[i].file = gathered[i].file
            /\ KeysOf(aligned) =
                  IF FromSingleName(data) /\ declared # <<>> /\ Len(declared[1]) = 1
                  THEN declared[1]
                  ELSE KeysOf(gathered)

----------------------------------------------------------------------------
(* Properties of the model source (SpecSource) *)

\* The entries of the per-type map for `type` that hold a model
OwnEntries(data, type) ==
    IF data.models = <<>> THEN {}
    ELSE {e \in Range(data.models[1]) : e.key = type /\ e.value.kind # "undefined"}

\* The first texture file of the definition
FirstTexture(data) ==
    IF data.textures # <<>> THEN data.textures[1].file ELSE data.texture[1]

HasTexture(data) == data.textures # <<>> \/ data.texture # <<>>

\* C32: the model source of a type is its entry of the per-type map if
\* there is one, else the single model field, else none; without a source
\* the written model is the generated-item model with one layer, the first
\* texture, and a definition with neither model nor texture fails.
C32_SourcePrecedenceAndDefaultModel ==
    call.done =>
        LET data == call.input.data
            out == call.output[1]
            own == OwnEntries(data, call.input.type)
        IN  /\ own # {} => \E e \in own : out.source = e.value
            /\ own = {} => out.source = data.model
            /\ out.source.kind = "undefined" /\ ~HasTexture(data) => out.threw
            /\ out.source.kind = "undefined" /\ HasTexture(data) =>
                  /\ ~out.threw
                  /\ out.written # <<>>
                  /\ out.written[1].parent = "minecraft:item/generated"
                  /\ Len(out.written[1].textures) = 1
                  /\ out.written[1].textures[1].path[2] =
                        resolveOneType(fromQueue(data), call.input.type).folder
                            \o Slash \o stripExtension(stdBasename(FirstTexture(data)))

----------------------------------------------------------------------------
(* Properties of the output folder (SpecFolder) *)

\* The namespace a path gives: "<first>/<second>", "<first>" or none
PathNamespace(path) ==
    CASE Len(path) >= 4 -> path[1] \o Slash \o path[2]
      [] Len(path) = 3 -> path[1]
      [] OTHER -> <<>>

\* The namespace of the definition: the parent its model declares, else
\* the one its path gives
Namespace(data, path) ==
    IF data.model.kind = "object" /\ data.model.parent # <<>>
    THEN data.model.parent[1]
    ELSE PathNamespace(path)

\* The name of the folder without namespace: the model's file or name, else
\* the first texture, else the type
BaseName(data, type) ==
    CASE data.model.kind = "string" -> stripExtension(stdBasename(data.model.file))
      [] data.model.kind = "object" -> stripExtension(stdBasename(data.model.name[1]))
      [] data.texture # <<>> -> stripExtension(stdBasename(data.texture[1]))
      [] OTHER -> type

\* C33: the namespace of a definition read from a file is the first two
\* segments of its relative path when that has at least 4 segments, the
\* first when it has 3, none when it has fewer, unless the model declares a
\* parent, which then is the namespace; the output folder is
\* <namespace>/<base> with a namespace and <base> without.
C33_FolderFromNamespace ==
    call.done =>
        LET ns == Namespace(call.input.data, call.input.filePath)
            base == BaseName(call.input.data, call.input.type)
        IN  call.output[1] = IF ns # <<>> THEN ns \o Slash \o base ELSE base

\* The folder of a definition four folders deep whose inline model declares
\* no parent: a/b/m.
C33_Witness ==
    /\ call.done
    /\ Len(call.input.filePath) = 5
    /\ call.input.data.model = inlineM
    /\ call.output[1] = <<97>> \o Slash \o <<98>> \o Slash \o <<109>>

----------------------------------------------------------------------------
(* Properties of the table write (SpecPersist) *)

\* C34: after a crash during a merge the table file holds what it held
\* before the merge: the complete previous table, never an empty or partly
\* written file.
C34_CrashLeavesPreviousTable ==
    call.pc = "crashed" =>
        /\ tables[call.input.type] = call.input.before
        /\ tables[call.input.type] \notin {FileEmpty, FilePartial}

----------------------------------------------------------------------------
(* Properties of the reference dataset cache (SpecCache) *)

\* C35: at every moment a marker naming a version has the complete assets
\* of that version beside it, and a call downloads exactly when it finds
\* the cache directory missing, empty or with a marker that is not the
\* configured version.
C35_MarkerImpliesCompleteAssets ==
    /\ cache.marker \in Versions => cache.assets = Assets(cache.marker, TRUE)
    /\ call.checked =>
          (call.downloads <=>
              \/ ~call.seen.dir
              \/ call.seen = [CacheAbsent EXCEPT !.dir = TRUE]
              \/ call.seen.marker # call.input)

----------------------------------------------------------------------------
(* Properties of the legacy merge (SpecLegacy) *)

HighestOf(entries) ==
    IF entries = <<>> THEN 0
    ELSE CHOOSE n \in {entries[i].threshold : i \in 1..Len(entries)} :
            \A i \in 1..Len(entries) : entries[i].threshold <= n

\* A merge of the behaviour has written the table of type t.
WrittenByMerge(t) ==
    \/ nMerges > 0 /\ ~last.threw /\ last.type = t
    \/ nMerges > 1 /\ ~prev.threw /\ prev.type = t

\* C38: a legacy merge that returns keeps the entries other than the
\* trailing one, numbers the references consecutively in their order from
\* max(2557, highest kept threshold) + 1 and ends the table with one
\* fallback entry at the next threshold; in every table written the last
\* entry is that fallback, its threshold is the highest and the thresholds
\* are pairwise distinct.
C38_LegacySequentialThresholds ==
    /\ (nMerges > 0 /\ ~last.threw) =>
          LET kept == NonTrailing(last.before)
              first == (IF HighestOf(kept) > 2557 THEN HighestOf(kept) ELSE 2557) + 1
              n == Len(last.refs)
              entries == last.after.entries
          IN  /\ Len(entries) = Len(kept) + n + 1
              /\ SubSeq(entries, 1, Len(kept)) = kept
              /\ \A i \in 1..n :
                    /\ entries[Len(kept) + i].threshold = first + i - 1
                    /\ entries[Len(kept) + i].model.model
                          = <<"supermodel:item/", ModelId(last.refs[i])>>
                    /\ last.thresholds[i].threshold = first + i - 1
              /\ entries[Len(entries)] =
                    [threshold |-> first + n,
                     model |-> [type |-> "model", model |-> <<"item/", last.type>>]]
              /\ tables[last.type] = last.after
    /\ \A t \in Types :
          WrittenByMerge(t) =>
              LET entries == tables[t].entries
              IN  /\ entries # <<>>
                  /\ entries[Len(entries)].model.model = <<"item/", t>>
                  /\ entries[Len(entries)].threshold = HighestOf(entries)
                  /\ \A i, j \in 1..Len(entries) :
                        i # j => entries[i].threshold # entries[j].threshold

\* A second merge into a table the first merge wrote over a hand-written
\* table, with two references.
C38_Witness ==
    /\ nMerges = 2
    /\ ~last.threw /\ ~prev.threw
    /\ last.type = prev.type
    /\ prev.before = HandTable(prev.type)
    /\ Len(last.refs) = 2
    /\ last.thresholds[1].threshold > 2558

====
